---- MODULE Spec2Model ----
(***************************************************************************)
(* derive-generic-visitor: the code generated by derive(Drive/DriveMut),   *)
(* derive(Visit/VisitMut) and visitable_group, and its execution.          *)
(*                                                                         *)
(* The macros are modelled as operators that build the generated method    *)
(* bodies (sequences of statements); the state machine runs those bodies   *)
(* one statement at a time on a call stack, and records every call and     *)
(* return in `log`.                                                        *)
(***************************************************************************)
EXTENDS Integers, Sequences, FiniteSets, TLC

VARIABLES types, heap, visitor, stack, ret, log, result

vars == <<types, heap, visitor, stack, ret, log, result>>

(* ---------------------------------------------------------------------- *)
(* Bounds of the model                                                     *)
(* ---------------------------------------------------------------------- *)

\* Largest number of fields declared in one type (over all its variants).
MaxFields == 3

(* ---------------------------------------------------------------------- *)
(* ControlFlow<Break, ()>                                                  *)
(* ---------------------------------------------------------------------- *)

\* Payloads a visitor may break with (values of V::Break).
BreakVals == {"b1", "b2"}

Continue == [tag |-> "Continue", b |-> "none"]

Break(b) == [tag |-> "Break", b |-> b]

\* The value of a method that returns nothing (hooks, infaillible visitors).
Unit == [tag |-> "Unit", b |-> "none"]

Pending == [tag |-> "Pending", b |-> "none"]

IsBreak(r) == r.tag = "Break"

ControlFlows == {Continue} \cup {Break(b) : b \in BreakVals}

\* std::convert::Infallible: a Break type without values.
Infallible == {}

\* ControlFlow<Break, Self>::Continue(self): the visitor, given back.
ContinueSelf == [tag |-> "Continue", b |-> "self"]

\* The visitor, given back as a plain `Self`.
TheVisitor == [tag |-> "Self", b |-> "none"]

(* ---------------------------------------------------------------------- *)
(* Small helpers on sequences                                              *)
(* ---------------------------------------------------------------------- *)

RECURSIVE Flatten(_)
Flatten(ss) == IF ss = <<>> THEN <<>> ELSE Head(ss) \o Flatten(Tail(ss))

Range(s) == {s[i] : i \in 1..Len(s)}

\* Identifiers of named fields, in declaration order.
FieldNames == <<"a", "b", "c", "d", "e", "f">>

\* syn::Index::from(index) rendered as a token, for index = 0, 1, ...
IndexTokens == <<"0", "1", "2", "3", "4", "5">>

\* format!("i{}", index), for index = 0, 1, ...
IVars == <<"i0", "i1", "i2", "i3", "i4", "i5">>

(* ---------------------------------------------------------------------- *)
(* derive(Drive) / derive(DriveMut): drive.rs                              *)
(* ---------------------------------------------------------------------- *)

\* A statement of a generated body.
\*   call: call method fn on the value named arg (a bound variable, or "x"
\*         for the value the method was called with);
\*         q says whether the call is followed by the `?` operator.
\*   hook: call a user hook that returns ().
\*   ret : the final expression; val is "Continue", "Unit" or "last" (the
\*         value of the call just before it), or one of the expressions that
\*         give the visitor back: "ContinueSelf" (`Continue(self)`), "Self"
\*         (`self`), "map_continue" (`last.map_continue(|()| self)`) and
\*         "match_continue" (`match last { Continue(x) => x }`).
\*   arm : for a statement of a match arm that is run, the arm's pattern.
\*   on  : the visitor the callee gets: "same" (the caller's), or the way it
\*         is derived from the caller's (see Recv).
CallOn(fn, arg, on, q) ==
    [op |-> "call", fn |-> fn, arg |-> arg, on |-> on, q |-> q, val |-> "none", arm |-> "none"]

Call(fn, arg, q) == CallOn(fn, arg, "same", q)

Hook(fn, arg) ==
    [op |-> "hook", fn |-> fn, arg |-> arg, on |-> "same", q |-> FALSE, val |-> "none",
     arm |-> "none"]

Ret(val) ==
    [op |-> "ret", fn |-> "none", arg |-> "none", on |-> "same", q |-> FALSE, val |-> val,
     arm |-> "none"]

\* Names::new(mutable)
Names(mutable) ==
    [visitor_trait |-> "Visitor",
     visit_trait   |-> IF mutable THEN "VisitMut" ELSE "Visit",
     drive_trait   |-> IF mutable THEN "DriveMut" ELSE "Drive",
     drive_method  |-> IF mutable THEN "drive_inner_mut" ELSE "drive_inner",
     mut_modifier  |-> mutable]

\* visit_field that pushes the where-clause predicate before it looks at
\* #[drive(skip)].
visit_field_requires_skipped(mutable, var, field) ==
    [tokens     |-> IF field.skip THEN <<>> ELSE << Call("visit", var, FALSE) >>,
     predicates |-> << [trait |-> Names(mutable).visit_trait, ty |-> field.ty] >>]

\* visit_field: the statement visiting one field, and the where-clause
\* predicate it adds to the impl. A #[drive(skip)] field yields neither.
visit_field(mutable, var, field) ==
    IF field.skip
    THEN [tokens |-> <<>>, predicates |-> <<>>]
    ELSE [tokens     |-> << Call("visit", var, FALSE) >>,
          predicates |-> << [trait |-> Names(mutable).visit_trait, ty |-> field.ty] >>]

\* match_variant with the visits emitted in the reverse of the declared order.
match_variant_reversed(mutable, name, fields) ==
    LET field_id(i) == IF fields[i].ident = "none"
                       THEN IndexTokens[i] ELSE fields[i].ident
        var(i)      == IF fields[i].ident = "none"
                       THEN IVars[i] ELSE fields[i].ident
        vf(i)       == visit_field(mutable, var(i), fields[i])
        n           == Len(fields)
    IN [pat           |-> name,
        destructuring |-> [i \in 1..n |-> [field_id |-> field_id(i), var |-> var(i)]],
        visit_fields  |-> Flatten([i \in 1..n |-> vf(n + 1 - i).tokens]),
        predicates    |-> Flatten([i \in 1..n |-> vf(i).predicates])]

\* match_variant: the match arm `name { field_id: var, ... } => { visits }`.
\* match_variant that, for DriveMut, visits the fields last to first.
match_variant_mut_reversed(mutable, name, fields) ==
    LET field_id(i) == IF fields[i].ident = "none"
                       THEN IndexTokens[i] ELSE fields[i].ident
        var(i)      == IF fields[i].ident = "none"
                       THEN IVars[i] ELSE fields[i].ident
        at(i)       == IF mutable THEN Len(fields) + 1 - i ELSE i
        vf(i)       == visit_field(mutable, var(at(i)), fields[at(i)])
    IN [pat           |-> name,
        destructuring |-> [i \in 1..Len(fields) |-> [field_id |-> field_id(i), var |-> var(i)]],
        visit_fields  |-> Flatten([i \in 1..Len(fields) |-> vf(i).tokens]),
        predicates    |-> Flatten([i \in 1..Len(fields) |-> vf(i).predicates])]

match_variant(mutable, name, fields) ==
    LET field_id(i) == IF fields[i].ident = "none"
                       THEN IndexTokens[i] ELSE fields[i].ident
        var(i)      == IF fields[i].ident = "none"
                       THEN IVars[i] ELSE fields[i].ident
        vf(i)       == visit_field(mutable, var(i), fields[i])
    IN [pat           |-> name,
        destructuring |-> [i \in 1..Len(fields) |-> [field_id |-> field_id(i), var |-> var(i)]],
        visit_fields  |-> Flatten([i \in 1..Len(fields) |-> vf(i).tokens]),
        predicates    |-> Flatten([i \in 1..Len(fields) |-> vf(i).predicates])]

\* impl_drive that forgets the #[drive(skip)] of a variant.
impl_drive_variant_skip_ignored(input, mutable) ==
    LET arm(v) == << match_variant(mutable, v.ident, v.fields) >>
        arms == IF input.skip THEN <<>>
                ELSE IF input.data = "struct"
                THEN << match_variant(mutable, "Self", input.fields) >>
                ELSE Flatten([i \in 1..Len(input.variants) |-> arm(input.variants[i])])
    IN [drive_trait  |-> Names(mutable).drive_trait,
        method       |-> Names(mutable).drive_method,
        where_clause |-> << [trait |-> "Visitor", ty |-> "none"] >>
                         \o Flatten([i \in 1..Len(arms) |-> arms[i].predicates]),
        arms         |-> arms,
        tail         |-> Ret("Continue")]

\* impl_drive: the impl generated for a type. `arms` are the arms of
\* `match self { #arms _ => {} }`; the body ends with Continue(()).
impl_drive(input, mutable) ==
    LET arm(v) == IF v.skip THEN <<>>
                  ELSE << match_variant(mutable, v.ident, v.fields) >>
        arms == IF input.skip THEN <<>>
                ELSE IF input.data = "struct"
                THEN << match_variant(mutable, "Self", input.fields) >>
                ELSE Flatten([i \in 1..Len(input.variants) |-> arm(input.variants[i])])
    IN [drive_trait  |-> Names(mutable).drive_trait,
        method       |-> Names(mutable).drive_method,
        where_clause |-> << [trait |-> "Visitor", ty |-> "none"] >>
                         \o Flatten([i \in 1..Len(arms) |-> arms[i].predicates]),
        arms         |-> arms,
        tail         |-> Ret("Continue")]

(* ---------------------------------------------------------------------- *)
(* Name inference: visit.rs, common.rs (convert_case)                      *)
(* ---------------------------------------------------------------------- *)

UpperChars == << "A", "B", "C", "D", "E", "F", "G", "H", "I", "J", "K", "L", "M",
                 "N", "O", "P", "Q", "R", "S", "T", "U", "V", "W", "X", "Y", "Z" >>

LowerChars == << "a", "b", "c", "d", "e", "f", "g", "h", "i", "j", "k", "l", "m",
                 "n", "o", "p", "q", "r", "s", "t", "u", "v", "w", "x", "y", "z" >>

DigitChars == {"0", "1", "2", "3", "4", "5", "6", "7", "8", "9"}

\* The class of a character: what char::is_uppercase, is_lowercase and
\* is_numeric say of it.
CharClass(c) ==
    IF c \in Range(UpperChars) THEN "upper"
    ELSE IF c \in Range(LowerChars) THEN "lower"
    ELSE IF c \in DigitChars THEN "digit" ELSE "other"

ToLower(c) ==
    IF c \in Range(UpperChars)
    THEN LowerChars[CHOOSE i \in 1..Len(UpperChars) : UpperChars[i] = c] ELSE c

\* The word boundaries of Case::Pascal that are left once UpperDigit and
\* LowerDigit are removed, on the classes of three consecutive characters
\* ("none" past the end): whether a word ends after the first.
IsBoundary(a, b, c) ==
    \/ a = "lower" /\ b = "upper"                        \* LowerUpper
    \/ a = "digit" /\ b = "upper"                        \* DigitUpper
    \/ a = "digit" /\ b = "lower"                        \* DigitLower
    \/ a = "upper" /\ b = "upper" /\ c = "lower"         \* Acronym

\* Whether a word ends after the i-th character of cs.
Boundary(cs, i) ==
    /\ i >= 1
    /\ i < Len(cs)
    /\ IsBoundary(CharClass(cs[i]), CharClass(cs[i + 1]),
                  IF i + 1 < Len(cs) THEN CharClass(cs[i + 2]) ELSE "none")

\* to_snake with the boundaries UpperDigit and LowerDigit left in.
to_snake_split_digits(cs) ==
    Flatten([i \in 1..Len(cs) |->
        (IF \/ Boundary(cs, i - 1)
            \/ i > 1 /\ CharClass(cs[i]) = "digit" /\ CharClass(cs[IF i > 1 THEN i - 1 ELSE 1]) \in {"upper", "lower"}
         THEN << "_" >> ELSE <<>>) \o << ToLower(cs[i]) >>])

\* name.from_case(Pascal).without_boundaries(..).to_case(Snake), on the
\* characters of the name.
to_snake(cs) ==
    Flatten([i \in 1..Len(cs) |->
        (IF Boundary(cs, i - 1) THEN << "_" >> ELSE <<>>) \o << ToLower(cs[i]) >>])

RECURSIVE StrOf(_)
StrOf(cs) == IF cs = <<>> THEN "" ELSE Head(cs) \o StrOf(Tail(cs))

\* A type as written in an attribute: `key` names the type it denotes;
\* path/qself/segments/args are its syntax (segments: the identifiers of a
\* path, each a sequence of characters; args: the generic arguments of the
\* last segment).
TypePath(key, segments) ==
    [key |-> key, path |-> TRUE, qself |-> FALSE, segments |-> segments, args |-> <<>>]

\* A path with generic arguments, like Node<T>.
TypeGeneric(key, segments, args) == [TypePath(key, segments) EXCEPT !.args = args]

\* A path with a qualified self type, like <T as Trait>::Out.
TypeQSelf(key, segments) == [TypePath(key, segments) EXCEPT !.qself = TRUE]

TypeOther(key) ==
    [key |-> key, path |-> FALSE, qself |-> FALSE, segments |-> <<>>, args |-> <<>>]

NoName == [some |-> FALSE, ident |-> ""]

SomeName(ident) == [some |-> TRUE, ident |-> ident]

NamedTy(name, ty) == [name |-> name, ty |-> ty]

\* get_name that makes up a name from the type where it can, and takes the
\* explicit name only where it cannot.
NamedTy_get_name_infer_first(named_ty) ==
    IF named_ty.ty.path /\ ~named_ty.ty.qself /\ Len(named_ty.ty.segments) = 1
    THEN [status |-> "ok", ident |-> StrOf(to_snake(named_ty.ty.segments[1]))]
    ELSE IF named_ty.name.some
    THEN [status |-> "ok", ident |-> named_ty.name.ident]
    ELSE [status |-> "panic", ident |-> ""]

\* get_name that makes the generic arguments part of the name.
NamedTy_get_name_with_args(named_ty) ==
    IF named_ty.name.some
    THEN [status |-> "ok", ident |-> named_ty.name.ident]
    ELSE IF named_ty.ty.path /\ ~named_ty.ty.qself /\ Len(named_ty.ty.segments) = 1
    THEN [status |-> "ok",
          ident |-> StrOf(to_snake(named_ty.ty.segments[1] \o Flatten(named_ty.ty.args)))]
    ELSE [status |-> "panic", ident |-> ""]

\* parse::NamedTy::get_name (visit.rs): the explicit name, or the snake case
\* of a single-segment path; any other type hits todo!().
NamedTy_get_name(named_ty) ==
    IF named_ty.name.some
    THEN [status |-> "ok", ident |-> named_ty.name.ident]
    ELSE IF named_ty.ty.path /\ ~named_ty.ty.qself /\ Len(named_ty.ty.segments) = 1
    THEN [status |-> "ok", ident |-> StrOf(to_snake(named_ty.ty.segments[1]))]
    ELSE [status |-> "panic", ident |-> ""]

(* ---------------------------------------------------------------------- *)
(* derive(Visit) / derive(VisitMut): visit.rs                              *)
(* ---------------------------------------------------------------------- *)

VisitKind(tag, name) == [tag |-> tag, name |-> name]

\* The kind of one target of an option: the match on opt.kind_token, n being
\* what named_ty.get_name() gives where the match calls it.
kind_of(kind_token, n) ==
    CASE kind_token = "skip"  -> [status |-> "ok", kind |-> VisitKind("Skip", "")]
      [] kind_token = "drive" -> [status |-> "ok", kind |-> VisitKind("Drive", "")]
      [] kind_token = "enter" -> [status |-> n.status, kind |-> VisitKind("Enter", n.ident)]
      [] kind_token = "exit"  -> [status |-> n.status, kind |-> VisitKind("Exit", n.ident)]
      [] OTHER                -> [status |-> n.status, kind |-> VisitKind("Override", n.ident)]

\* The `?` of parse_attrs: the Visits pushed so far are returned unless a
\* target failed, and then the first failure is.
collect(all) ==
    LET bad == {i \in 1..Len(all) : all[i].status # "ok"} IN
    [status |-> IF bad = {} THEN "ok" ELSE all[CHOOSE i \in bad : \A j \in bad : i <= j].status,
     out    |-> IF bad = {} THEN [i \in 1..Len(all) |-> [kind |-> all[i].kind, ty |-> all[i].ty]]
                ELSE <<>>]

\* The Visits of a list without those whose type an earlier one has.
RECURSIVE FirstOfEachTy(_)
FirstOfEachTy(all) ==
    IF all = <<>> THEN <<>>
    ELSE IF \E j \in 1..(Len(all) - 1) : all[j].ty = all[Len(all)].ty
    THEN FirstOfEachTy(SubSeq(all, 1, Len(all) - 1))
    ELSE Append(FirstOfEachTy(SubSeq(all, 1, Len(all) - 1)), all[Len(all)])

\* parse_attrs that keeps the first Visit of each type only.
parse_attrs_dedup(attrs) ==
    LET of_opt(opt) == [t \in 1..Len(opt.tys) |->
                           kind_of(opt.kind_token, NamedTy_get_name(opt.tys[t]))
                               @@ [ty |-> opt.tys[t].ty]]
        of_attr(attr) == IF attr.path # "visit" THEN <<>>
                         ELSE Flatten([o \in 1..Len(attr.options) |-> of_opt(attr.options[o])])
    IN collect(FirstOfEachTy(Flatten([a \in 1..Len(attrs) |-> of_attr(attrs[a])])))

\* parse::parse_attrs: one Visit per target of every #[visit(...)]
\* attribute, in attribute order, then option order, then target order.
parse_attrs(attrs) ==
    LET of_opt(opt) == [t \in 1..Len(opt.tys) |->
                           kind_of(opt.kind_token, NamedTy_get_name(opt.tys[t]))
                               @@ [ty |-> opt.tys[t].ty]]
        of_attr(attr) == IF attr.path # "visit" THEN <<>>
                         ELSE Flatten([o \in 1..Len(attr.options) |-> of_opt(attr.options[o])])
    IN collect(Flatten([a \in 1..Len(attrs) |-> of_attr(attrs[a])]))

\* The user's method visit_<name>, called by generated code.
UserMethod(fn, arg, q) ==
    [op |-> "user", fn |-> fn, arg |-> arg, on |-> "same", q |-> q, val |-> "none", arm |-> "none"]

\* visit_body whose Override arm drops the `?` after visit_<name>(x).
visit_body_override_unchecked(kind, mutable) ==
    LET drive_inner == Call(Names(mutable).drive_method, "x", TRUE) IN
    CASE kind.tag = "Skip"  -> <<>>
      [] kind.tag = "Drive" -> << drive_inner >>
      [] kind.tag = "Enter" -> << Hook("enter_" \o kind.name, "x"), drive_inner >>
      [] kind.tag = "Exit"  -> << drive_inner, Hook("exit_" \o kind.name, "x") >>
      [] OTHER              -> << UserMethod("visit_" \o kind.name, "x", FALSE) >>

\* visit_body whose Enter arm calls the hook after the drive.
visit_body_enter_late(kind, mutable) ==
    LET drive_inner == Call(Names(mutable).drive_method, "x", TRUE) IN
    CASE kind.tag = "Skip"  -> <<>>
      [] kind.tag = "Drive" -> << drive_inner >>
      [] kind.tag = "Enter" -> << drive_inner, Hook("enter_" \o kind.name, "x") >>
      [] kind.tag = "Exit"  -> << drive_inner, Hook("exit_" \o kind.name, "x") >>
      [] OTHER              -> << UserMethod("visit_" \o kind.name, "x", TRUE) >>

\* visit_body whose Exit arm drops the `?` after the drive.
visit_body_exit_unchecked(kind, mutable) ==
    LET drive_inner == Call(Names(mutable).drive_method, "x", TRUE) IN
    CASE kind.tag = "Skip"  -> <<>>
      [] kind.tag = "Drive" -> << drive_inner >>
      [] kind.tag = "Enter" -> << Hook("enter_" \o kind.name, "x"), drive_inner >>
      [] kind.tag = "Exit"  -> << Call(Names(mutable).drive_method, "x", FALSE),
                                  Hook("exit_" \o kind.name, "x") >>
      [] OTHER              -> << UserMethod("visit_" \o kind.name, "x", TRUE) >>

\* The body of the generated `fn visit`: the match on visit.kind.
visit_body(kind, mutable) ==
    LET drive_inner == Call(Names(mutable).drive_method, "x", TRUE) IN
    CASE kind.tag = "Skip"  -> <<>>
      [] kind.tag = "Drive" -> << drive_inner >>
      [] kind.tag = "Enter" -> << Hook("enter_" \o kind.name, "x"), drive_inner >>
      [] kind.tag = "Exit"  -> << drive_inner, Hook("exit_" \o kind.name, "x") >>
      [] OTHER              -> << UserMethod("visit_" \o kind.name, "x", TRUE) >>

\* The impls quoted by impl_visit: one `impl Visit[Mut]<'s, Ty> for Visitor`
\* per parsed target.
visit_impls(visit_options, mutable) ==
    [status |-> visit_options.status,
     impls  |-> [i \in 1..Len(visit_options.out) |->
                   [trait |-> Names(mutable).visit_trait,
                    ty    |-> visit_options.out[i].ty,
                    body  |-> visit_body(visit_options.out[i].kind, mutable),
                    tail  |-> Ret("Continue")]]]

impl_visit(input, mutable) == visit_impls(parse_attrs(input.attrs), mutable)

(* ---------------------------------------------------------------------- *)
(* #[visitable_group(...)]: visitable_group.rs, common.rs                  *)
(* ---------------------------------------------------------------------- *)

\* common::Names::new(mutable)
common_Names(mutable) ==
    [control_flow       |-> "ControlFlow",
     visitor_trait      |-> "Visitor",
     visit_trait        |-> IF mutable THEN "VisitMut" ELSE "Visit",
     drive_trait        |-> IF mutable THEN "DriveMut" ELSE "Drive",
     drive_inner_method |-> IF mutable THEN "drive_inner_mut" ELSE "drive_inner",
     mut_modifier       |-> mutable]

TyVisitKind(tag, skip, name) == [tag |-> tag, skip |-> skip, name |-> name]

VisitorDef(vis_trait_name, method_name, mutability, faillible) ==
    [vis_trait_name |-> vis_trait_name, method_name |-> method_name,
     mutability |-> mutability, faillible |-> faillible]

\* The keywords of a SetVisitableTypes argument.
VisitableTypeKinds == {"skip", "drive", "override", "override_skip"}

\* Options::parse, SetVisitableTypes: the kind pushed for a type, `name`
\* being what ty.get_name() gives where the match calls it.
ty_visit_kind(kind, name) ==
    CASE kind = "skip"     -> TyVisitKind("Skip", FALSE, "")
      [] kind = "drive"    -> TyVisitKind("Drive", FALSE, "")
      [] kind = "override" -> TyVisitKind("Override", FALSE, name)
      [] OTHER             -> TyVisitKind("Override", TRUE, name)

NoError == [span |-> "", message |-> ""]

\* Error::new_spanned(tokens, message)
Error_new_spanned(tokens, message) == [span |-> tokens, message |-> message]

\* NamedGenericTy::get_name (common.rs): the explicit name, or the snake
\* case of a single-segment path; any other type is an Err.
NamedGenericTy_get_name(named_ty) ==
    IF named_ty.name.some
    THEN [status |-> "ok", ident |-> named_ty.name.ident, error |-> NoError]
    ELSE IF named_ty.ty.path /\ ~named_ty.ty.qself /\ Len(named_ty.ty.segments) = 1
    THEN [status |-> "ok", ident |-> StrOf(to_snake(named_ty.ty.segments[1])), error |-> NoError]
    ELSE [status |-> "error", ident |-> "",
          error |-> Error_new_spanned(named_ty.ty.key,
                        "Cannot make up a method name for this type; provide one by writing 'foo: ' before the type")]

\* A `kind(tys..)` argument of the macro.
SetVisitableTypes(kind, tys) == [kind |-> kind, tys |-> tys]

\* Options::parse, the match on kind for one type: get_name() is called for
\* override and override_skip only.
Options_ty(kind, named_ty) ==
    IF kind \in {"override", "override_skip"}
    THEN LET n == NamedGenericTy_get_name(named_ty) IN
         [status |-> n.status, error |-> n.error, ty |-> named_ty.ty.key,
          kind |-> ty_visit_kind(kind, n.ident)]
    ELSE [status |-> "ok", error |-> NoError, ty |-> named_ty.ty.key,
          kind |-> ty_visit_kind(kind, "")]

\* The `?` of Options::parse: the options with the types pushed so far,
\* unless a type failed, and then the first Err.
Options_collect(visitors, all) ==
    LET bad == {i \in 1..Len(all) : all[i].status # "ok"} IN
    IF bad = {}
    THEN [status |-> "ok", error |-> NoError,
          options |-> [visitors |-> visitors,
                       tys |-> [i \in 1..Len(all) |-> [ty |-> all[i].ty, kind |-> all[i].kind]]]]
    ELSE [status |-> "error", error |-> all[CHOOSE i \in bad : \A j \in bad : i <= j].error,
          options |-> [visitors |-> <<>>, tys |-> <<>>]]

\* impl Parse for Options, on the visitor(..) arguments and the
\* SetVisitableTypes arguments of the macro, in the order written.
Options_parse(visitors, args) ==
    Options_collect(visitors,
        Flatten([a \in 1..Len(args) |->
                    [t \in 1..Len(args[a].tys) |-> Options_ty(args[a].kind, args[a].tys[t])]]))

\* A `visitor(method_name(&[mut] trait_name)[, flag])` argument as written:
\* flag is the identifier after the comma, "none" without a comma.
SetVisitorTrait(method_name, mutability, trait_name, flag) ==
    [method_name |-> method_name, mutability |-> mutability, trait_name |-> trait_name,
     flag |-> flag]

\* impl Parse for MacroArg, on a visitor(..) argument: after a comma the
\* custom keyword `infaillible` is parsed, and any other identifier is the
\* Err of that keyword. Then the VisitorDef that Options::parse pushes.
MacroArg_parse(arg) ==
    IF arg.flag \in {"none", "infaillible"}
    THEN [status |-> "ok", error |-> NoError,
          def |-> VisitorDef(arg.trait_name, arg.method_name, arg.mutability,
                             arg.flag = "none")]
    ELSE [status |-> "error", error |-> Error_new_spanned(arg.flag, "expected 'infaillible'"),
          def |-> VisitorDef("", "", FALSE, TRUE)]

\* Punctuated::<MacroArg>::parse_terminated(input)? and the loop of
\* Options::parse: the first Err of an argument, or the options.
Options_parse_args(visitor_args, args) ==
    LET bad == {i \in 1..Len(visitor_args) : MacroArg_parse(visitor_args[i]).status # "ok"} IN
    IF bad = {}
    THEN Options_parse([i \in 1..Len(visitor_args) |-> MacroArg_parse(visitor_args[i]).def], args)
    ELSE [status  |-> "error",
          error   |-> MacroArg_parse(visitor_args[CHOOSE i \in bad : \A j \in bad : i <= j]).error,
          options |-> [visitors |-> <<>>, tys |-> <<>>]]

\* What a method of the generated traits returns when it succeeds.
Success(faillible) == Ret(IF faillible THEN "Continue" ELSE "Unit")

\* drive_method_body that takes override_skip for skip.
drive_method_body_skip_confused(kind, faillible) ==
    CASE kind.tag = "Skip"  -> << Success(faillible) >>
      [] kind.tag = "Drive" -> << Call("visit_inner", "x", FALSE), Ret("last") >>
      [] OTHER              -> IF kind.skip THEN << Success(faillible) >>
                               ELSE << Call("visit_" \o kind.name, "x", FALSE), Ret("last") >>

\* The body of a participant's `fn method_name(&self, v: &mut V)`; the
\* value of its one expression is what the method returns.
drive_method_body(kind, faillible) ==
    CASE kind.tag = "Skip"  -> << Success(faillible) >>
      [] kind.tag = "Drive" -> << Call("visit_inner", "x", FALSE), Ret("last") >>
      [] OTHER              -> << Call("visit_" \o kind.name, "x", FALSE), Ret("last") >>

\* A wrapper whose visit is `self.0.visit(x)` for every trait.
wrapper_visit_body_unconverted(faillible) ==
    << CallOn("visit", "x", "unwrap", FALSE), Ret("last") >>

\* The body of `fn visit` of the wrapper that implements Visit[Mut]<T>:
\* `self.0.visit(x)`, inside `Continue(..)` for an infaillible trait.
wrapper_visit_body(faillible) ==
    << CallOn("visit", "x", "unwrap", FALSE), Ret(IF faillible THEN "last" ELSE "Continue") >>

\* visitor_wrappers: the wrapper structs and their Visitor impls.
\* <Trait>Wrapper<V: Visitor> has `type Break = V::Break`; it is always
\* defined. <Trait>InfaillibleWrapper<V> has `type Break = Infallible`; it
\* is defined when some visitor trait is infaillible.
visitor_wrappers(visitors) ==
    << [wrapper |-> "Wrapper", break |-> "V::Break"] >>
        \o (IF \A j \in 1..Len(visitors) : visitors[j].faillible THEN <<>>
            ELSE << [wrapper |-> "InfaillibleWrapper", break |-> "Infallible"] >>)

\* A visit_inner that drives the value a second time.
visit_inner_body_twice(names, faillible) ==
    << CallOn(names.drive_inner_method, "x", "wrap", FALSE),
       CallOn(names.drive_inner_method, "x", "wrap", FALSE),
       Ret(IF faillible THEN "last" ELSE "Unit") >>

\* The default `fn visit_inner`: `x.drive_inner(Wrapper::wrap(self))`,
\* matched against Continue(x) for an infaillible trait.
visit_inner_body(names, faillible) ==
    << CallOn(names.drive_inner_method, "x", "wrap", FALSE),
       Ret(IF faillible THEN "last" ELSE "Unit") >>

\* overrideable_body that takes no account of `skip`.
overrideable_body_skip_ignored(kind, faillible) ==
    << Hook("enter_" \o kind.name, "x"),
       Call("visit_inner", "x", faillible),
       Hook("exit_" \o kind.name, "x"),
       Success(faillible) >>

\* overrideable_body that calls exit_<name> before visit_inner.
overrideable_body_exit_early(kind, faillible) ==
    (IF kind.skip THEN <<>>
     ELSE << Hook("enter_" \o kind.name, "x"),
             Hook("exit_" \o kind.name, "x"),
             Call("visit_inner", "x", faillible) >>)
    \o << Success(faillible) >>

\* overrideable_body whose visit_inner call is never followed by `?`.
overrideable_body_unchecked(kind, faillible) ==
    (IF kind.skip THEN <<>>
     ELSE << Hook("enter_" \o kind.name, "x"),
             Call("visit_inner", "x", FALSE),
             Hook("exit_" \o kind.name, "x") >>)
    \o << Success(faillible) >>

\* The default `fn visit_<name>` of an Override type.
overrideable_body(kind, faillible) ==
    (IF kind.skip THEN <<>>
     ELSE << Hook("enter_" \o kind.name, "x"),
             Call("visit_inner", "x", faillible),
             Hook("exit_" \o kind.name, "x") >>)
    \o << Success(faillible) >>

Method(name, body) == [name |-> name, body |-> body]

\* The overrideable methods a visitor trait gets for one type.
overrideable_methods(kind, faillible) ==
    IF kind.tag # "Override" THEN <<>>
    ELSE << Method("visit_" \o kind.name, overrideable_body(kind, faillible)),
            Method("enter_" \o kind.name, << Ret("Unit") >>),
            Method("exit_" \o kind.name, << Ret("Unit") >>) >>

\* visit_by_val_methods whose faillible visit_by_val is `self.visit(x);
\* Continue(self)`.
visit_by_val_methods_forgetful(faillible) ==
    << Method("visit_by_val",
              << Call("visit", "x", FALSE), Ret(IF faillible THEN "ContinueSelf" ELSE "Self") >>) >>
    \o (IF faillible
        THEN << Method("visit_by_val_infallible",
                       << Call("visit_by_val", "x", FALSE), Ret("match_continue") >>) >>
        ELSE <<>>)

\* `fn visit_by_val` of a visitor trait, and for a faillible trait `fn
\* visit_by_val_infallible` (where Self: Visitor<Break = Infallible>).
visit_by_val_methods(faillible) ==
    << Method("visit_by_val",
              << Call("visit", "x", FALSE), Ret(IF faillible THEN "map_continue" ELSE "Self") >>) >>
    \o (IF faillible
        THEN << Method("visit_by_val_infallible",
                       << Call("visit_by_val", "x", FALSE), Ret("match_continue") >>) >>
        ELSE <<>>)

\* visitor_trait whose default visit goes to visit_inner, not to the drive
\* method of the value.
visitor_trait_visit_inner(vis_def, tys) ==
    [vis_trait_name |-> vis_def.vis_trait_name,
     method_name    |-> vis_def.method_name,
     visit          |-> << Call("visit_inner", "x", FALSE), Ret("last") >>,
     visit_inner    |-> visit_inner_body(common_Names(vis_def.mutability), vis_def.faillible),
     methods        |-> visit_by_val_methods(vis_def.faillible)
                        \o Flatten([i \in 1..Len(tys) |->
                            overrideable_methods(tys[i].kind, vis_def.faillible)])]

\* The visitor trait generated for one `visitor(..)` argument.
visitor_trait(vis_def, tys) ==
    [vis_trait_name |-> vis_def.vis_trait_name,
     method_name    |-> vis_def.method_name,
     visit          |-> << Call(vis_def.method_name, "x", FALSE), Ret("last") >>,
     visit_inner    |-> visit_inner_body(common_Names(vis_def.mutability), vis_def.faillible),
     methods        |-> visit_by_val_methods(vis_def.faillible)
                        \o Flatten([i \in 1..Len(tys) |->
                            overrideable_methods(tys[i].kind, vis_def.faillible)])]

\* impl_visitable_group: the impl of the visitable trait for each listed
\* type (one drive method per visitor trait), the Visit[Mut] impl of the
\* wrapper for each visitor trait, and the visitor traits.
impl_visitable_group(options) ==
    [impls |-> [i \in 1..Len(options.tys) |->
                  [ty    |-> options.tys[i].ty,
                   items |-> [j \in 1..Len(options.visitors) |->
                                Method(options.visitors[j].method_name,
                                       drive_method_body(options.tys[i].kind,
                                                         options.visitors[j].faillible))]]],
     visitor_wrappers |-> visitor_wrappers(options.visitors),
     wrapper_impls |-> [j \in 1..Len(options.visitors) |->
                  [visit_trait |-> common_Names(options.visitors[j].mutability).visit_trait,
                   wrapper     |-> IF options.visitors[j].faillible
                                   THEN "Wrapper" ELSE "InfaillibleWrapper",
                   body        |-> wrapper_visit_body(options.visitors[j].faillible)]],
     traits |-> [j \in 1..Len(options.visitors) |->
                  visitor_trait(options.visitors[j], options.tys)]]

(* ---------------------------------------------------------------------- *)
(* The provided methods of Visit: lib.rs                                   *)
(* ---------------------------------------------------------------------- *)

\* Visit::visit_by_val / VisitMut::visit_by_val: `self.visit(x)?; Continue(self)`
Visit_visit_by_val == << Call("visit", "x", TRUE), Ret("ContinueSelf") >>

\* visit_by_val_infallible that visits once more before visit_by_val.
Visit_visit_by_val_infallible_twice ==
    << Call("visit", "x", FALSE), Call("visit_by_val", "x", FALSE), Ret("match_continue") >>

\* Visit::visit_by_val_infallible (where Self: Visitor<Break = Infallible>):
\* `match self.visit_by_val(x) { Continue(x) => x }`
Visit_visit_by_val_infallible ==
    << Call("visit_by_val", "x", FALSE), Ret("match_continue") >>

\* The expansion of #[visitable_group(..)]: what impl_visitable_group makes
\* of the parsed options, or the Err of the parse and nothing generated.
expand_visitable_group(parsed) ==
    [status |-> parsed.status, error |-> parsed.error,
     gen    |-> IF parsed.status = "ok" THEN impl_visitable_group(parsed.options)
                ELSE [impls |-> <<>>, visitor_wrappers |-> <<>>, wrapper_impls |-> <<>>,
                      traits |-> <<>>]]

(* ---------------------------------------------------------------------- *)
(* Compatibility with derive_visitor: dynamic.rs                           *)
(* ---------------------------------------------------------------------- *)

\* dyn_visitor::drive that notifies Exit before it drives the value.
dyn_visitor_drive_exit_early(mutable) ==
    << Hook("Enter", "x"),
       Hook("Exit", "x"),
       CallOn(Names(mutable).drive_method, "x", "dyn_wrap", FALSE),
       Ret("Unit") >>

\* dyn_visitor::drive / drive_mut:
\* `v.visit(x, Event::Enter); let _ = x.drive_inner(DynVisitorAdapter::wrap(v));
\*  v.visit(x, Event::Exit);`
dyn_visitor_drive(mutable) ==
    << Hook("Enter", "x"),
       CallOn(Names(mutable).drive_method, "x", "dyn_wrap", FALSE),
       Hook("Exit", "x"),
       Ret("Unit") >>

\* impl Visit[Mut]<T> for DynVisitorAdapter<V>: `x.drive(&mut self.0); Continue(())`
DynVisitorAdapter_visit(mutable) ==
    << CallOn(IF mutable THEN "drive_mut" ELSE "drive", "x", "dyn_unwrap", FALSE),
       Ret("Continue") >>

\* derive_visitor::Drive[Mut] of a type, written as the module says:
\* `fn drive<V: Visitor>(&self, v: &mut V) { dyn_visitor::drive(self, v) }`
DriveDyn_drive(mutable) ==
    << Call(IF mutable THEN "dyn_drive_mut" ELSE "dyn_drive", "x", FALSE), Ret("Unit") >>

(* ---------------------------------------------------------------------- *)
(* Built-in drivers: basic_impls.rs                                        *)
(* ---------------------------------------------------------------------- *)

\* impl Drive[Mut] for Box<T>: `v.visit(&**self)`
box_drive ==
    [arms |-> << [pat |-> "Self",
                  destructuring |-> << [field_id |-> "0", var |-> "inner"] >>,
                  visit_fields  |-> << Call("visit", "inner", FALSE) >>,
                  predicates    |-> <<>>] >>,
     tail |-> Ret("last")]

\* impl Drive[Mut] for (A, B): `let (x, y) = self; v.visit(x)?; v.visit(y)?;`
tuple2_drive ==
    [arms |-> << [pat |-> "Self",
                  destructuring |-> << [field_id |-> "0", var |-> "x"],
                                       [field_id |-> "1", var |-> "y"] >>,
                  visit_fields  |-> << Call("visit", "x", TRUE),
                                       Call("visit", "y", TRUE) >>,
                  predicates    |-> <<>>] >>,
     tail |-> Ret("Continue")]

\* impl Drive[Mut] for (A, B, C): `let (x, y, z) = self; v.visit(x)?;
\* v.visit(y)?; v.visit(z)?; Continue(())`.
tuple3_drive ==
    [arms |-> << [pat |-> "Self",
                  destructuring |-> << [field_id |-> "0", var |-> "x"],
                                       [field_id |-> "1", var |-> "y"],
                                       [field_id |-> "2", var |-> "z"] >>,
                  visit_fields  |-> << Call("visit", "x", TRUE),
                                       Call("visit", "y", TRUE),
                                       Call("visit", "z", TRUE) >>,
                  predicates    |-> <<>>] >>,
     tail |-> Ret("Continue")]

\* A loop that visits every element and drops what the visits return.
for_each_visit_discarding(elems) ==
    [i \in 1..Len(elems) |-> [Call("visit", "x", FALSE) EXCEPT !.arg = elems[i]]]
        \o << [Ret("Continue") EXCEPT !.arg = 0] >>

\* `for x in iter { v.visit(x)?; } Continue(())`, the body of the impls of
\* iter_impl! (Vec<T>, Option<T>, [T; N], with self.iter() or
\* self.iter_mut()) and of drive_iter and drive_iter_mut: one `v.visit(x)?`
\* per node the iterator yields, in the order it yields them.
for_each_visit(elems) ==
    [i \in 1..Len(elems) |-> [Call("visit", "x", TRUE) EXCEPT !.arg = elems[i]]]
        \o << [Ret("Continue") EXCEPT !.arg = 0] >>

\* leaf_impl!: a type without contents to visit.
leaf_drive == [arms |-> <<>>, tail |-> Ret("Continue")]

(* ---------------------------------------------------------------------- *)
(* Types and values                                                        *)
(* ---------------------------------------------------------------------- *)

NoInput == [data |-> "none", skip |-> FALSE, fields |-> <<>>, variants |-> <<>>]

Derived(input) == [impl |-> "derived", input |-> input]

Builtin(impl) == [impl |-> impl, input |-> NoInput]

\* The name under which a value holds its i-th declared field (1-based i).
MemberName(fields, i) ==
    IF fields[i].ident = "none" THEN IndexTokens[i] ELSE fields[i].ident

\* A value of a composite: its variant ("Self" for a struct or a builtin)
\* and, per member name, the node of the heap that holds the field.
Value(ty, variant, fields, first) ==
    [ty      |-> ty,
     variant |-> variant,
     fields  |-> [m \in {MemberName(fields, i) : i \in 1..Len(fields)} |->
                     first - 1 + (CHOOSE i \in 1..Len(fields) : MemberName(fields, i) = m)]]

Leaf(ty) == [ty |-> ty, variant |-> "Self", fields |-> <<>>]

\* The fields of the variant a value of a derived type is.
FieldsOf(input, variant) ==
    IF input.data = "struct" THEN input.fields
    ELSE LET i == CHOOSE i \in 1..Len(input.variants) : input.variants[i].ident = variant
         IN input.variants[i].fields

(* ---------------------------------------------------------------------- *)
(* Running the generated code                                              *)
(* ---------------------------------------------------------------------- *)

\* A hand-written visitor, about which nothing is known.
OracleV == [k |-> "oracle", lay |-> 0]

\* A visitor struct with derive(Visit) or derive(VisitMut).
DeriveV == [k |-> "derive", lay |-> 0]

DriveMethods == {"drive_inner", "drive_inner_mut"}

\* The Drive impl (or the DriveMut impl) of a type.
DrivePlan(ty, mutable) ==
    CASE types[ty].impl = "derived" -> impl_drive(types[ty].input, mutable)
      [] types[ty].impl = "box"     -> box_drive
      [] types[ty].impl = "tuple2"  -> tuple2_drive
      [] types[ty].impl = "tuple3"  -> tuple3_drive
      [] OTHER                      -> leaf_drive

\* A match that runs its first arm whatever the variant of the value (a
\* variable the value has no field for is bound to the value itself).
RunMatch_first_arm(plan, x) ==
    LET bound(arm, var) ==
            LET j == CHOOSE j \in 1..Len(arm.destructuring) : arm.destructuring[j].var = var
                m == arm.destructuring[j].field_id
            IN IF m \in DOMAIN heap[x].fields THEN heap[x].fields[m] ELSE x
        run(arm) == [k \in 1..Len(arm.visit_fields) |->
                        [arm.visit_fields[k] EXCEPT !.arg = bound(arm, @), !.arm = arm.pat]]
    IN (IF plan.arms = <<>> THEN <<>> ELSE run(plan.arms[1]))
       \o << [plan.tail EXCEPT !.arg = 0] >>

\* `match self { arms.. _ => {} }` on the value at node x: the statements of
\* the first arm whose pattern matches, their variables bound to the nodes
\* the pattern destructures, followed by the tail expression.
RunMatch(plan, x) ==
    LET matching == {i \in 1..Len(plan.arms) : plan.arms[i].pat = heap[x].variant}
        bound(arm, var) ==
            LET j == CHOOSE j \in 1..Len(arm.destructuring) : arm.destructuring[j].var = var
            IN heap[x].fields[arm.destructuring[j].field_id]
        run(arm) == [k \in 1..Len(arm.visit_fields) |->
                        [arm.visit_fields[k] EXCEPT !.arg = bound(arm, @), !.arm = arm.pat]]
    IN (IF matching = {} THEN <<>>
        ELSE run(plan.arms[CHOOSE i \in matching : \A j \in matching : i <= j]))
       \o << [plan.tail EXCEPT !.arg = 0] >>

\* The visitor that implements a generated visitor trait at layer lay of a
\* stack of hand-written wrappers (layer 0 is the base visitor).
GroupV(lay) == [k |-> "group", lay |-> lay]

\* The generated wrapper around GroupV(lay), which implements Visit[Mut].
AdapterV(lay) == [k |-> "adapter", lay |-> lay]

\* A derive_visitor visitor (V: VisitorDyn or VisitorMutDyn).
DynV == [k |-> "dyn", lay |-> 0]

\* DynVisitorAdapter::wrap(v)
DynAdapterV == [k |-> "dyn_adapter", lay |-> 0]

\* The visitor a callee is given: the caller's ("same"), Wrapper::wrap(self),
\* the self.0 of the generated wrapper, the self.0 of a hand-written
\* wrapper, or the wrappers stacked on the base visitor.
Recv(v, on) ==
    CASE on = "wrap"   -> AdapterV(v.lay)
      [] on = "dyn_wrap"   -> DynAdapterV
      [] on = "dyn_unwrap" -> DynV
      [] on = "unwrap" -> GroupV(v.lay)
      [] on = "inner"  -> GroupV(v.lay - 1)
      [] on = "stack"  -> GroupV(visitor.layers)
      [] OTHER         -> v

\* A hand-written impl of a generated visitor trait: how it overrides
\* visit ("stack": wrap self and visit with the wrappers) and visit_inner
\* ("inner": x.drive(self.0)), the methods it overrides with code that does
\* not call back (opaque), and the visit_<name> it overrides so as to end
\* with self.visit_inner(x).
UserImpl(visit, visit_inner, opaque, then_inner) ==
    [visit |-> visit, visit_inner |-> visit_inner, opaque |-> opaque, then_inner |-> then_inner]

\* The drive method generated for the type of the value at node x.
DriveItem(gen, x) ==
    LET i == CHOOSE i \in 1..Len(gen.impls) : gen.impls[i].ty = heap[x].ty
    IN gen.impls[i].items[visitor.vis].body

\* The default body of the method of a generated visitor trait.
TraitMethod(t, fn) ==
    LET i == CHOOSE i \in 1..Len(t.methods) : t.methods[i].name = fn
    IN t.methods[i].body

\* The body of method s.fn of a visitor of a visitable group.
GroupBody(s, v, x, t, u) ==
    CASE v.k = "adapter" ->
            visitor.gen.wrapper_impls[visitor.vis].body
      [] v.k = "group" /\ s.fn = "visit" ->
            IF u.visit = "stack"
            THEN << CallOn("visit", "x", "stack", FALSE), Ret("last") >>
            ELSE t.visit
      [] v.k = "group" /\ s.fn = t.method_name ->
            DriveItem(visitor.gen, x)
      [] v.k = "group" /\ s.fn = "visit_inner" ->
            IF u.visit_inner = "inner"
            THEN << CallOn(t.method_name, "x", "inner", FALSE), Ret("last") >>
            ELSE t.visit_inner
      [] OTHER ->
            IF s.fn \in u.then_inner
            THEN << Call("visit_inner", "x", FALSE), Ret("last") >>
            ELSE TraitMethod(t, s.fn)

\* What hand-written code called on visitor v can return: () (also from a
\* derive_visitor::Drive impl of another crate), or a
\* ControlFlow over the values of the visitor's Break type.
Results(v) ==
    IF v.k = "dyn" THEN {Unit}
    ELSE IF v.k = "group" /\ ~visitor.options.visitors[visitor.vis].faillible
    THEN {Unit} ELSE {Continue} \cup {Break(b) : b \in visitor.break}

\* What a hand-written method does to the fields of the base visitor when it
\* is called on the value at node x, before anything it calls:
\*   DepthWrapper: enter_node `depth += 1`, exit_node `depth -= 1`;
\*   SumWrapper:   enter_node `sum += x.val`;
\*   MyVisitor:    visit_node `total += x.val * depth`;
\*   SumLiterals:  enter_expr `if let Literal(n) = x { sum += n }`.
UserEffect(effect, my, x) ==
    CASE effect = "depth_inc" -> [my EXCEPT !.depth = @ + 1]
      [] effect = "depth_dec" -> [my EXCEPT !.depth = @ - 1]
      [] effect = "sum_val"   -> [my EXCEPT !.sum = @ + heap[heap[x].fields["val"]].val]
      [] effect = "total"     ->
            [my EXCEPT !.total = @ + heap[heap[x].fields["val"]].val * my.depth]
      [] effect = "sum_literal" ->
            IF heap[x].variant = "Literal"
            THEN [my EXCEPT !.sum = @ + heap[heap[x].fields["0"]].val] ELSE my
      [] OTHER -> my

\* The program after method fn of visitor v has been entered on node x.
Effect(prog, v, fn, x) ==
    IF v.k = "group" /\ fn \in DOMAIN prog.effects[v.lay + 1]
    THEN [prog EXCEPT !.my = UserEffect(prog.effects[v.lay + 1][fn], @, x)]
    ELSE prog

\* The statements of a body on the value at node x: "x" is that value.
OnValue(body, x) ==
    [k \in 1..Len(body) |-> [body[k] EXCEPT !.arg = IF body[k].op = "ret" THEN 0 ELSE x]]

\* The impls of a list that are for the type of the value at node x.
ImplsFor(impls, x) == SelectSeq(impls, LAMBDA i : i.ty.key = heap[x].ty)

\* The impls derive(Visit[Mut]) generated for the visitor struct that are
\* for the type of the value at node x.
VisitImpls(x) == ImplsFor(impl_visit(visitor.input, visitor.mutable).impls, x)

\* The statements of a generated impl.
ImplBody(impls) == impls[1].body \o << impls[1].tail >>

\* Calls that run hand-written code to its end: the visit of a hand-written
\* visitor, a Visit impl the visitor struct has no derive for, and the
\* user's visit_<name> (unless it is one that recurses with drive_inner).
IsUserCode(s, v, x) ==
    \/ v.k = "oracle" /\ s.fn = "visit"
    \/ v.k = "derive" /\ s.op = "call" /\ s.fn = "visit" /\ VisitImpls(x) = <<>>
    \/ v.k = "derive" /\ s.op = "user" /\ s.fn \notin visitor.user_drives
    \/ v.k = "group" /\ s.fn \in visitor.user[v.lay + 1].opaque
    \/ v.k = "dyn" /\ s.fn \in {"drive", "drive_mut"} /\ heap[x].ty \notin visitor.dyn_drive

\* The calls a run starts with, and the method each is a call of.
EntryPoints ==
    ("call_visit" :> "visit") @@ ("call_visit_by_val" :> "visit_by_val")
        @@ ("call_visit_by_val_infallible" :> "visit_by_val_infallible")

\* What the iterator of the collection at node x yields: the nodes of its
\* elements, first to last (nothing for an empty collection and for None).
Iter(x) ==
    [i \in 1..Cardinality(DOMAIN heap[x].fields) |-> heap[x].fields[IndexTokens[i]]]

\* A caller whose last expression is `x.drive_inner(v)` or `v.visit(x)`.
Caller(fn, x) == OnValue(<< Call(fn, "x", FALSE), Ret("last") >>, x)

\* The body of method s.fn of visitor v on the value at node x.
Body(s, v, x) ==
    CASE s.fn \in DriveMethods /\ types[heap[x].ty].impl # "iter" ->
            \* the impl is expanded once, then run on the value
            CHOOSE body \in {RunMatch(plan, x) :
                                plan \in {DrivePlan(heap[x].ty, s.fn = "drive_inner_mut")}} : TRUE
      [] s.fn \in DriveMethods /\ types[heap[x].ty].impl = "iter" ->
            for_each_visit(Iter(x))
      [] s.fn \in {"drive_iter", "drive_iter_mut"} ->
            for_each_visit(Iter(x))
      [] s.fn = "call_drive_iter" ->
            Caller(IF visitor.mutable THEN "drive_iter_mut" ELSE "drive_iter", x)
      [] s.fn = "call_drive_inner" ->
            Caller(Names(visitor.mutable).drive_method, x)
      [] s.fn \in DOMAIN EntryPoints ->
            Caller(EntryPoints[s.fn], x)
      [] s.fn = "visit_by_val" /\ v.k \in {"oracle", "derive"} ->
            OnValue(Visit_visit_by_val, x)
      [] s.fn = "visit_by_val_infallible" /\ v.k \in {"oracle", "derive"} ->
            OnValue(Visit_visit_by_val_infallible, x)
      [] s.fn = "call_dyn_drive" ->
            Caller(IF visitor.mutable THEN "dyn_drive_mut" ELSE "dyn_drive", x)
      [] s.fn \in {"dyn_drive", "dyn_drive_mut"} ->
            OnValue(dyn_visitor_drive(s.fn = "dyn_drive_mut"), x)
      [] v.k = "dyn" /\ s.fn \in {"drive", "drive_mut"} ->
            OnValue(DriveDyn_drive(s.fn = "drive_mut"), x)
      [] v.k = "dyn_adapter" /\ s.fn = "visit" ->
            OnValue(DynVisitorAdapter_visit(visitor.mutable), x)
      [] s.op = "user" ->
            \* a user method like visit_node of test_generic_list2
            Caller(Names(visitor.mutable).drive_method, x)
      [] s.fn = "visit" /\ v.k = "derive" ->
            OnValue(ImplBody(VisitImpls(x)), x)
      [] v.k \in {"group", "adapter"} /\ s.fn \notin DriveMethods \cup DOMAIN EntryPoints ->
            OnValue(GroupBody(s, v, x, visitor.gen.traits[visitor.vis],
                              visitor.user[v.lay + 1]), x)

Frame(s, x, v) ==
    [fn |-> s.fn, x |-> x, v |-> v, body |-> Body(s, v, x), pc |-> 1, st |-> "run"]

\* An entry of the log: a call of fn on node x with visitor v, made by a
\* statement of match arm `by`; or the return of such a call, with its value.
Ev(ev, fn, x, v, res, by) ==
    [ev |-> ev, fn |-> fn, x |-> x, v |-> v, res |-> res, by |-> by]

Top == stack[Len(stack)]

Stmt == Top.body[Top.pc]

Pop(stk) == SubSeq(stk, 1, Len(stk) - 1)

SetTop(stk, f) == [stk EXCEPT ![Len(stk)] = f]

\* The caller sees a callee return: it is now at its call, with the value.
Returned(stk) ==
    IF stk = <<>> THEN stk ELSE SetTop(stk, [stk[Len(stk)] EXCEPT !.st = "returned"])

\* A call to generated or library code: push its frame.
CallStep ==
    /\ stack # <<>>
    /\ Top.st = "run"
    /\ Stmt.op \in {"call", "user"}
    /\ LET v2 == Recv(Top.v, Stmt.on) IN
        /\ ~IsUserCode(Stmt, v2, Stmt.arg)
        /\ stack' = Append(SetTop(stack, [Top EXCEPT !.st = "called"]),
                           Frame(Stmt, Stmt.arg, v2))
        /\ log' = Append(log, Ev("call", Stmt.fn, Stmt.arg, v2, Pending, Stmt.arm))
        /\ visitor' = Effect(visitor, v2, Stmt.fn, Stmt.arg)
    /\ UNCHANGED <<types, heap, ret, result>>

\* A call to user code, which runs to its end and returns r.
UserCall(r) ==
    /\ stack # <<>>
    /\ Top.st = "run"
    /\ Stmt.op \in {"call", "user"}
    /\ LET v2 == Recv(Top.v, Stmt.on) IN
        /\ IsUserCode(Stmt, v2, Stmt.arg)
        /\ r \in Results(v2)
        /\ log' = log \o << Ev("call", Stmt.fn, Stmt.arg, v2, Pending, Stmt.arm),
                            Ev("ret", Stmt.fn, Stmt.arg, v2, r, Stmt.arm) >>
    /\ stack' = SetTop(stack, [Top EXCEPT !.st = "returned"])
    /\ ret' = r
    /\ UNCHANGED <<types, heap, visitor, result>>

\* A call to a user hook (enter_<name>, exit_<name>), which returns ().
HookStep ==
    /\ stack # <<>>
    /\ Top.st = "run"
    /\ Stmt.op = "hook"
    /\ log' = Append(log, Ev("hook", Stmt.fn, Stmt.arg, Top.v, Unit, "none"))
    /\ stack' = SetTop(stack, [Top EXCEPT !.pc = @ + 1])
    /\ visitor' = Effect(visitor, Top.v, Stmt.fn, Stmt.arg)
    /\ UNCHANGED <<types, heap, ret, result>>

\* The final expression of a body: return its value to the caller.
ReturnStep ==
    /\ stack # <<>>
    /\ Top.st = "run"
    /\ Stmt.op = "ret"
    /\ LET val == CASE Stmt.val = "last"           -> ret
                    [] Stmt.val = "Continue"       -> Continue
                    [] Stmt.val = "ContinueSelf"   -> ContinueSelf
                    [] Stmt.val = "Self"           -> TheVisitor
                    [] Stmt.val = "map_continue"   ->
                          IF IsBreak(ret) THEN ret ELSE ContinueSelf
                    [] Stmt.val = "match_continue" ->
                          (CASE ret.tag = "Continue" -> TheVisitor)
                    [] OTHER                       -> Unit
       IN /\ ret' = val
          /\ log' = Append(log, Ev("ret", Top.fn, Top.x, Top.v, val, "none"))
          /\ result' = IF Len(stack) = 1 THEN val ELSE result
    /\ stack' = Returned(Pop(stack))
    /\ UNCHANGED <<types, heap, visitor>>

\* After a call: without `?`, or with `?` on a Continue, go on with the next
\* statement (the value of a call without `?` is kept only for a tail `ret`).
Resume ==
    /\ stack # <<>>
    /\ Top.st = "returned"
    /\ ~(Stmt.q /\ IsBreak(ret))
    /\ stack' = SetTop(stack, [Top EXCEPT !.st = "run", !.pc = @ + 1])
    /\ UNCHANGED <<types, heap, visitor, ret, log, result>>

\* After a call: `?` on a Break returns that Break from the caller.
Propagate ==
    /\ stack # <<>>
    /\ Top.st = "returned"
    /\ Stmt.q /\ IsBreak(ret)
    /\ log' = Append(log, Ev("ret", Top.fn, Top.x, Top.v, ret, "none"))
    /\ result' = IF Len(stack) = 1 THEN ret ELSE result
    /\ stack' = Returned(Pop(stack))
    /\ UNCHANGED <<types, heap, visitor, ret>>

(* ---------------------------------------------------------------------- *)
(* SpecDrive: x.drive_inner(v) on one composite, for any visitor v         *)
(* ---------------------------------------------------------------------- *)

Flags(n) == [1..n -> BOOLEAN]

\* Declared fields with the given skip flags; named fields or positional.
Fields(flags, named) ==
    [i \in 1..Len(flags) |->
        [ident |-> IF named THEN FieldNames[i] ELSE "none", skip |-> flags[i], ty |-> "F"]]

StructInputs ==
    UNION {{[data |-> "struct", skip |-> ts, fields |-> Fields(fl, nm), variants |-> <<>>]
              : ts \in BOOLEAN, nm \in BOOLEAN, fl \in Flags(n)} : n \in 0..MaxFields}

Variant(ident, skip, fields) == [ident |-> ident, skip |-> skip, fields |-> fields]

EnumInputs ==
    UNION {UNION {{[data |-> "enum", skip |-> ts, fields |-> <<>>,
                    variants |-> << Variant("A", sa, Fields(fa, nm)),
                                    Variant("B", sb, Fields(fb, nm)) >>]
                     : ts \in BOOLEAN, nm \in BOOLEAN, sa \in BOOLEAN, sb \in BOOLEAN,
                       fa \in Flags(na), fb \in Flags(nb)}
                  : nb \in 0..(MaxFields - na)} : na \in 0..MaxFields}

VariantsOf(input) ==
    IF input.data = "struct" THEN {"Self"}
    ELSE {input.variants[i].ident : i \in 1..Len(input.variants)}

\* A value of the type at node 1, its fields at the nodes 2, 3, ...
HeapOf(ty, variant, fields, fty) ==
    << Value(ty, variant, fields, 2) >> \o [i \in 1..Len(fields) |-> Leaf(fty)]

TupleFields(n) == Fields([i \in 1..n |-> FALSE], FALSE)

InitRun(fn, v) ==
    /\ stack = << Frame(Call(fn, "x", FALSE), 1, v) >>
    /\ log = <<>>
    /\ ret = Pending
    /\ result = Pending

InitDrive ==
    /\ \E mutable \in BOOLEAN : visitor = [k |-> "oracle", mutable |-> mutable, break |-> BreakVals]
    /\ \/ \E input \in StructInputs \cup EnumInputs : \E variant \in VariantsOf(input) :
            /\ types = ("T" :> Derived(input)) @@ ("F" :> Builtin("leaf"))
            /\ heap = HeapOf("T", variant, FieldsOf(input, variant), "F")
       \/ /\ types = ("T" :> Builtin("tuple2")) @@ ("F" :> Builtin("leaf"))
          /\ heap = HeapOf("T", "Self", TupleFields(2), "F")
    /\ InitRun("call_drive_inner", OracleV)

NextDrive ==
    \/ CallStep
    \/ \E r \in ControlFlows : UserCall(r)
    \/ ReturnStep
    \/ Resume
    \/ Propagate

SpecDrive == InitDrive /\ [][NextDrive]_vars

(* ---------------------------------------------------------------------- *)
(* SpecVisit: v.visit(x) on a visitor struct with derive(Visit[Mut])       *)
(* ---------------------------------------------------------------------- *)

\* What may stand before the parenthesis of an option; "none" is a bare target.
KindTokens == {"none", "skip", "drive", "enter", "exit", "override"}

Attr(path, options) == [path |-> path, options |-> options]

Option(kind_token, tys) == [kind_token |-> kind_token, tys |-> tys]

\* The types a root value is taken from, with the way the type is written:
\* a struct T with named fields, Box<F>, and the pair (F, F).
VisitRoots ==
    {[ty |-> Derived(input), fields |-> input.fields, syntax |-> TypePath("T", << << "T" >> >>)]
        : input \in {i \in StructInputs : ~i.skip /\ \A k \in 1..Len(i.fields) : i.fields[k].ident # "none"}}
    \cup {[ty |-> Builtin("box"), fields |-> TupleFields(1),
           syntax |-> TypePath("T", << << "B", "o", "x" >> >>)]}
    \cup {[ty |-> Builtin("tuple2"), fields |-> TupleFields(2), syntax |-> TypeOther("T")]}

\* #[doc] #[visit(<kind>(<name:> T))] #[visit(F)] struct Visitor;
VisitorInput(kind_token, name, syntax) ==
    [attrs |-> << Attr("doc", <<>>),
                  Attr("visit", << Option(kind_token, << NamedTy(name, syntax) >>) >>),
                  Attr("visit", << Option("none", << NamedTy(NoName, TypePath("F", << << "F" >> >>)) >>) >>) >>]

\* The names the user's method for the root type can have.
RootMethods == {"visit_elem", "visit_t", "visit_box"}

InitVisit ==
    /\ \E mutable \in BOOLEAN, kind_token \in KindTokens, root \in VisitRoots,
          name \in {NoName, SomeName("elem")}, user_drives \in {{}, RootMethods} :
          /\ name.some \/ root.syntax.path
          /\ visitor = [k |-> "derive", mutable |-> mutable, break |-> BreakVals,
                        user_drives |-> user_drives,
                        input |-> VisitorInput(kind_token, name, root.syntax)]
          /\ types = ("T" :> root.ty) @@ ("F" :> Builtin("leaf"))
          /\ heap = HeapOf("T", "Self", root.fields, "F")
    /\ InitRun("call_visit", DeriveV)

NextVisit ==
    \/ CallStep
    \/ \E r \in ControlFlows : UserCall(r)
    \/ HookStep
    \/ ReturnStep
    \/ Resume
    \/ Propagate

SpecVisit == InitVisit /\ [][NextVisit]_vars

(* ---------------------------------------------------------------------- *)
(* SpecGroup: v.visit(x) on a list, for a visitor of a visitable group     *)
(* ---------------------------------------------------------------------- *)

\* The longest list that is visited.
MaxLen == 1

\* The number of hand-written wrappers stacked on the base visitor.
MaxLayers == 2

\* enum List { Nil, Cons(Node) }
ListInput ==
    [data |-> "enum", skip |-> FALSE, fields |-> <<>>,
     variants |-> << Variant("Nil", FALSE, <<>>),
                     Variant("Cons", FALSE,
                             << [ident |-> "none", skip |-> FALSE, ty |-> "Node"] >>) >>]

\* struct Node { #[drive(skip)] val: u32, next: Box<List> }
NodeInput ==
    [data |-> "struct", skip |-> FALSE, variants |-> <<>>,
     fields |-> << [ident |-> "val", skip |-> TRUE, ty |-> "u32"],
                   [ident |-> "next", skip |-> FALSE, ty |-> "Box"] >>]

GroupTypes ==
    ("List" :> Derived(ListInput)) @@ ("Node" :> Derived(NodeInput))
        @@ ("Box" :> Builtin("box")) @@ ("u32" :> Builtin("leaf"))

\* List::from_list of n values: the k-th Cons is at node 4k+1, its Node at
\* 4k+2, the Node's val and next at 4k+3 and 4k+4, and the list the Box
\* holds at 4k+5; the last list is Nil.
ListHeap(n) ==
    [p \in 1..(4 * n + 1) |->
        CASE p = 4 * n + 1 -> [ty |-> "List", variant |-> "Nil", fields |-> <<>>]
          [] p % 4 = 1 /\ p < 4 * n + 1 ->
                [ty |-> "List", variant |-> "Cons", fields |-> ("0" :> p + 1)]
          [] p % 4 = 2 ->
                [ty |-> "Node", variant |-> "Self",
                 fields |-> ("val" :> p + 1) @@ ("next" :> p + 2)]
          [] p % 4 = 3 -> Leaf("u32")
          [] OTHER -> [ty |-> "Box", variant |-> "Self", fields |-> ("0" :> p + 1)]]

\* #[visitable_group(visitor(drive_list(&ListVisitor)[, infaillible]),
\*                   visitor(drive_list_mut(&mut ListVisitorMut)[, infaillible]),
\*                   (f1, f2: whether each trait is faillible)
\*                   <kl>(List), <kb>(for<T: ListVisitable> Box<T>), <kn>(Node))]
GroupOptions(f1, f2, kl, kb, kn) ==
    [visitors |-> << VisitorDef("ListVisitor", "drive_list", FALSE, f1),
                     VisitorDef("ListVisitorMut", "drive_list_mut", TRUE, f2) >>,
     tys      |-> << [ty |-> "List", kind |-> ty_visit_kind(kl, "list")],
                     [ty |-> "Box",  kind |-> ty_visit_kind(kb, "box")],
                     [ty |-> "Node", kind |-> ty_visit_kind(kn, "node")] >>]

\* A visitor that overrides at most one method, with code that does not
\* call back.
PlainVisitors ==
    {<< UserImpl("default", "default", opaque, {}) >> :
        opaque \in {{}, {"visit_inner"}, {"visit_list"}, {"visit_box"}, {"visit_node"}}}

\* MyVisitor of test_visitor_wrapper under n wrappers like DepthWrapper and
\* SumWrapper, with or without its own visit_node.
StackedVisitors ==
    {<< UserImpl("stack", "default", {}, then_inner) >>
        \o [l \in 1..n |-> UserImpl("default", "inner", {}, {})] :
        then_inner \in {{}, {"visit_node"}}, n \in 1..MaxLayers}

\* The program: the group's options, what the macro generated from them,
\* the visitor trait in use and the hand-written impls of it.
GroupProgram(options, vis, user) ==
    [k |-> "group", mutable |-> options.visitors[vis].mutability,
     options |-> options, gen |-> impl_visitable_group(options),
     vis |-> vis, layers |-> Len(user) - 1, user |-> user,
     break |-> BreakVals, my |-> [depth |-> 0, sum |-> 0, total |-> 0],
     effects |-> [l \in 1..Len(user) |-> <<>>]]

InitGroup ==
    /\ \E f \in BOOLEAN, vis \in 1..2,
          kl \in VisitableTypeKinds, kb \in VisitableTypeKinds, kn \in VisitableTypeKinds,
          user \in PlainVisitors \cup StackedVisitors :
          visitor = GroupProgram(GroupOptions(f, ~f, kl, kb, kn), vis, user)
    /\ types = GroupTypes
    /\ \E n \in 0..MaxLen : heap = ListHeap(n)
    /\ InitRun("call_visit", GroupV(0))

NextGroup ==
    \/ CallStep
    \/ \E r \in ControlFlows \cup {Unit} : UserCall(r)
    \/ HookStep
    \/ ReturnStep
    \/ Resume
    \/ Propagate

SpecGroup == InitGroup /\ [][NextGroup]_vars

(* ---------------------------------------------------------------------- *)
(* SpecWrapper: test_visitor_wrapper, on lists of values                   *)
(* ---------------------------------------------------------------------- *)

\* The longest list of values that is visited.
MaxList == 3

\* The largest value in a list.
MaxVal == 2

\* A u32 whose value is val.
U32(val) == [ty |-> "u32", variant |-> "Self", fields |-> <<>>, val |-> val]

\* List::from_list(vals): the nodes of ListHeap, the k-th Node's val being
\* vals[k].
ListOf(vals) ==
    [p \in 1..(4 * Len(vals) + 1) |->
        IF p % 4 = 3 THEN U32(vals[(p + 1) \div 4]) ELSE ListHeap(Len(vals))[p]]

\* MyVisitor::default(), whose visit is
\* `DepthWrapper(&mut SumWrapper(self)).visit(x)`: layer 0 is MyVisitor,
\* layer 1 SumWrapper and layer 2 DepthWrapper, each with what its
\* hand-written methods do. #[derive(Visitor)] gives Break = Infallible.
WrapperProgram ==
    [GroupProgram(GroupOptions(TRUE, TRUE, "drive", "drive", "override"), 1,
                  << UserImpl("stack", "default", {}, {"visit_node"}),
                     UserImpl("default", "inner", {}, {}),
                     UserImpl("default", "inner", {}, {}) >>)
        EXCEPT !.break = Infallible,
               !.effects = << ("visit_node" :> "total"),
                              ("enter_node" :> "sum_val"),
                              ("enter_node" :> "depth_inc") @@ ("exit_node" :> "depth_dec") >>]

InitWrapper ==
    /\ visitor = WrapperProgram
    /\ types = GroupTypes
    /\ \E n \in 0..MaxList : \E vals \in [1..n -> 0..MaxVal] : heap = ListOf(vals)
    /\ InitRun("call_visit_by_val_infallible", GroupV(0))

\* No method of the three visitors is left open: every call is a call of
\* generated code or of the code of the test.
NextWrapper ==
    \/ CallStep
    \/ HookStep
    \/ ReturnStep
    \/ Resume

SpecWrapper == InitWrapper /\ [][NextWrapper]_vars

(* ---------------------------------------------------------------------- *)
(* SpecByVal: v.visit_by_val(x) and v.visit_by_val_infallible(x)           *)
(* ---------------------------------------------------------------------- *)

\* Whether the entry point exists for the visitor: visit_by_val_infallible
\* asks for Break = Infallible, is a method of Visit but not of VisitMut,
\* and is generated for a faillible visitor trait only.
HasEntry(entry, prog) ==
    \/ entry = "call_visit_by_val"
    \/ /\ entry = "call_visit_by_val_infallible"
       /\ prog.break = Infallible
       /\ IF prog.k = "group" THEN prog.options.visitors[prog.vis].faillible
          ELSE ~prog.mutable

ByValEntries == {"call_visit_by_val", "call_visit_by_val_infallible"}

\* A hand-written Visit[Mut]<T> impl, on a value without contents.
InitByValOracle ==
    /\ \E mutable \in BOOLEAN, break \in {Infallible, BreakVals} :
          visitor = [k |-> "oracle", mutable |-> mutable, break |-> break]
    /\ types = ("T" :> Builtin("leaf"))
    /\ heap = << Leaf("T") >>
    /\ \E entry \in ByValEntries : HasEntry(entry, visitor) /\ InitRun(entry, OracleV)

\* A visitor struct with #[visit(<kind>(T))] #[visit(F)].
InitByValDerive ==
    /\ \E mutable \in BOOLEAN, break \in {Infallible, BreakVals},
          kind_token \in KindTokens, root \in VisitRoots :
          /\ root.syntax.path
          /\ visitor = [k |-> "derive", mutable |-> mutable, break |-> break,
                        user_drives |-> {},
                        input |-> VisitorInput(kind_token, NoName, root.syntax)]
          /\ types = ("T" :> root.ty) @@ ("F" :> Builtin("leaf"))
          /\ heap = HeapOf("T", "Self", root.fields, "F")
    /\ \E entry \in ByValEntries : HasEntry(entry, visitor) /\ InitRun(entry, DeriveV)

\* A visitor of the list group that overrides at most one method.
InitByValGroup ==
    /\ \E f \in BOOLEAN, vis \in 1..2, kl \in VisitableTypeKinds, kn \in VisitableTypeKinds,
          user \in PlainVisitors, break \in {Infallible, BreakVals} :
          /\ break = Infallible => (IF vis = 1 THEN f ELSE ~f)
          /\ visitor = [GroupProgram(GroupOptions(f, ~f, kl, "drive", kn), vis, user)
                            EXCEPT !.break = break]
    /\ types = GroupTypes
    /\ \E n \in 0..MaxLen : heap = ListHeap(n)
    /\ \E entry \in ByValEntries : HasEntry(entry, visitor) /\ InitRun(entry, GroupV(0))

InitByVal == InitByValOracle \/ InitByValDerive \/ InitByValGroup

NextByVal ==
    \/ CallStep
    \/ \E r \in ControlFlows \cup {Unit} : UserCall(r)
    \/ HookStep
    \/ ReturnStep
    \/ Resume
    \/ Propagate

SpecByVal == InitByVal /\ [][NextByVal]_vars

(* ---------------------------------------------------------------------- *)
(* SpecList: test_early_exit, v.visit_by_val(x) on a List<i32>             *)
(* ---------------------------------------------------------------------- *)

\* struct Node<T> { val: T, next: Box<List<T>> }
GenericNodeInput ==
    [data |-> "struct", skip |-> FALSE, variants |-> <<>>,
     fields |-> << [ident |-> "val", skip |-> FALSE, ty |-> "i32"],
                   [ident |-> "next", skip |-> FALSE, ty |-> "Box"] >>]

ElemListTypes ==
    ("List" :> Derived(ListInput)) @@ ("Node" :> Derived(GenericNodeInput))
        @@ ("Box" :> Builtin("box")) @@ ("i32" :> Builtin("leaf"))

\* List::Nil.cons(..).cons(..) of n elements, laid out as ListHeap.
ElemList(n) ==
    [p \in 1..(4 * n + 1) |-> IF p % 4 = 3 THEN Leaf("i32") ELSE ListHeap(n)[p]]

\* #[visit(elem: i32)]
\* #[visit(drive(List<i32>, Node<i32>, Box<List<i32>>))]
\* struct SumVisitor
SumVisitorInput ==
    [attrs |-> << Attr("visit", << Option("none",
                        << NamedTy(SomeName("elem"), TypePath("i32", << << "i", "3", "2" >> >>)) >>) >>),
                  Attr("visit", << Option("drive",
                        << NamedTy(NoName, TypePath("List", << << "L", "i", "s", "t" >> >>)),
                           NamedTy(NoName, TypePath("Node", << << "N", "o", "d", "e" >> >>)),
                           NamedTy(NoName, TypePath("Box", << << "B", "o", "x" >> >>)) >>) >>) >>]

InitList ==
    /\ \E mutable \in BOOLEAN :
          visitor = [k |-> "derive", mutable |-> mutable, break |-> BreakVals,
                     user_drives |-> {}, input |-> SumVisitorInput]
    /\ types = ElemListTypes
    /\ \E n \in 0..MaxList : heap = ElemList(n)
    /\ InitRun("call_visit_by_val", DeriveV)

\* The visitor has no hook: visit_elem is its one hand-written method.
NextList ==
    \/ CallStep
    \/ \E r \in ControlFlows : UserCall(r)
    \/ ReturnStep
    \/ Resume
    \/ Propagate

SpecList == InitList /\ [][NextList]_vars

(* ---------------------------------------------------------------------- *)
(* SpecAst: infaillible_visitable_group, v.visit(x) on an Expr             *)
(* ---------------------------------------------------------------------- *)

\* How deep the Let expressions of a visited Expr are nested.
MaxDepth == 1

\* struct Id(String)
IdInput ==
    [data |-> "struct", skip |-> FALSE, variants |-> <<>>,
     fields |-> << [ident |-> "none", skip |-> FALSE, ty |-> "String"] >>]

\* enum Expr { Literal(usize), Let { lhs: Pat, rhs: Box<Expr>, body: Box<Expr> } }
ExprInput ==
    [data |-> "enum", skip |-> FALSE, fields |-> <<>>,
     variants |-> << Variant("Literal", FALSE,
                             << [ident |-> "none", skip |-> FALSE, ty |-> "usize"] >>),
                     Variant("Let", FALSE,
                             << [ident |-> "lhs", skip |-> FALSE, ty |-> "Pat"],
                                [ident |-> "rhs", skip |-> FALSE, ty |-> "Box"],
                                [ident |-> "body", skip |-> FALSE, ty |-> "Box"] >>) >>]

\* enum Pat { Var(Id) }
PatInput ==
    [data |-> "enum", skip |-> FALSE, fields |-> <<>>,
     variants |-> << Variant("Var", FALSE,
                             << [ident |-> "none", skip |-> FALSE, ty |-> "Id"] >>) >>]

AstTypes ==
    ("Id" :> Derived(IdInput)) @@ ("Expr" :> Derived(ExprInput)) @@ ("Pat" :> Derived(PatInput))
        @@ ("Box" :> Builtin("box")) @@ ("usize" :> Builtin("leaf"))
        @@ ("String" :> Builtin("leaf"))

\* The expressions whose Lets are nested at most d deep, over the literals
\* 0..MaxVal; the lhs of every Let is Pat::Var(Id(..)).
RECURSIVE Exprs(_)
Exprs(d) ==
    {[tag |-> "Literal", n |-> n] : n \in 0..MaxVal}
    \cup (IF d = 0 THEN {}
          ELSE {[tag |-> "Let", rhs |-> r, body |-> b] : r \in Exprs(d - 1), b \in Exprs(d - 1)})

\* The nodes of expression e, the first of them the Expr itself at node
\* at: a Literal is followed by its usize; a Let by its Pat, the Pat's Id,
\* the Id's String, the Box of rhs, the Box of body, rhs and body.
RECURSIVE ExprHeap(_, _)
ExprHeap(e, at) ==
    IF e.tag = "Literal"
    THEN << [ty |-> "Expr", variant |-> "Literal", fields |-> ("0" :> at + 1)],
            [ty |-> "usize", variant |-> "Self", fields |-> <<>>, val |-> e.n] >>
    ELSE LET rhs == ExprHeap(e.rhs, at + 6) IN
         << [ty |-> "Expr", variant |-> "Let",
             fields |-> ("lhs" :> at + 1) @@ ("rhs" :> at + 4) @@ ("body" :> at + 5)],
            [ty |-> "Pat", variant |-> "Var", fields |-> ("0" :> at + 2)],
            [ty |-> "Id", variant |-> "Self", fields |-> ("0" :> at + 3)],
            Leaf("String"),
            [ty |-> "Box", variant |-> "Self", fields |-> ("0" :> at + 6)],
            [ty |-> "Box", variant |-> "Self", fields |-> ("0" :> at + 6 + Len(rhs))] >>
         \o rhs \o ExprHeap(e.body, at + 6 + Len(rhs))

\* #[visitable_group(visitor(drive(&AstVisitor), infaillible),
\*     skip(usize, String), drive(for<T: AstVisitable> Box<T>),
\*     <kp>(Pat), override(Expr), override_skip(Id))]
AstOptions(kp) ==
    [visitors |-> << VisitorDef("AstVisitor", "drive", FALSE, FALSE) >>,
     tys      |-> << [ty |-> "usize",  kind |-> ty_visit_kind("skip", "usize")],
                     [ty |-> "String", kind |-> ty_visit_kind("skip", "string")],
                     [ty |-> "Box",    kind |-> ty_visit_kind("drive", "box")],
                     [ty |-> "Pat",    kind |-> ty_visit_kind(kp, "pat")],
                     [ty |-> "Expr",   kind |-> ty_visit_kind("override", "expr")],
                     [ty |-> "Id",     kind |-> ty_visit_kind("override_skip", "id")] >>]

\* SumLiterals(0): an AstVisitor that overrides enter_expr only.
SumLiterals(kp) ==
    [GroupProgram(AstOptions(kp), 1, << UserImpl("default", "default", {}, {}) >>)
        EXCEPT !.effects = << ("enter_expr" :> "sum_literal") >>]

InitAst ==
    /\ \E kp \in {"drive", "override"} : visitor = SumLiterals(kp)
    /\ types = AstTypes
    /\ \E e \in Exprs(MaxDepth) : heap = ExprHeap(e, 1)
    /\ InitRun("call_visit", GroupV(0))

\* Nothing returns Break, and no method is left open.
NextAst ==
    \/ CallStep
    \/ HookStep
    \/ ReturnStep
    \/ Resume

SpecAst == InitAst /\ [][NextAst]_vars

(* ---------------------------------------------------------------------- *)
(* SpecNames: the expansion of one declaration, from its targets           *)
(* ---------------------------------------------------------------------- *)

\* Types named by one identifier, as written in a target.
SimpleTypes ==
    {TypePath("HtmlParser5", << << "H", "t", "m", "l", "P", "a", "r", "s", "e", "r", "5" >> >>),
     TypePath("HTTPServer", << << "H", "T", "T", "P", "S", "e", "r", "v", "e", "r" >> >>),
     TypePath("MyList", << << "M", "y", "L", "i", "s", "t" >> >>),
     TypePath("X2Y", << << "X", "2", "Y" >> >>),
     TypePath("u64", << << "u", "6", "4" >> >>),
     TypePath("u32", << << "u", "3", "2" >> >>),
     TypePath("T", << << "T" >> >>),
     TypeGeneric("Node<T>", << << "N", "o", "d", "e" >> >>, << << "T" >> >>)}

\* Types that are not: std::string::String, <T as Iterator>::Item, (A, B), &T.
OtherTypes ==
    {TypePath("std::string::String",
              << << "s", "t", "d" >>, << "s", "t", "r", "i", "n", "g" >>,
                 << "S", "t", "r", "i", "n", "g" >> >>),
     TypeQSelf("<T as Iterator>::Item", << << "I", "t", "e", "m" >> >>),
     TypeOther("(A, B)"),
     TypeOther("&T")}

\* `Type` and `myElem: Type`
Targets ==
    {NamedTy(name, ty) : name \in {NoName, SomeName("myElem")}, ty \in SimpleTypes \cup OtherTypes}

\* The targets a declaration of two is made of.
SiblingTargets ==
    {NamedTy(NoName, TypePath("u64", << << "u", "6", "4" >> >>)),
     NamedTy(NoName, TypePath("HtmlParser5",
                              << << "H", "t", "m", "l", "P", "a", "r", "s", "e", "r", "5" >> >>)),
     NamedTy(NoName, TypeOther("(A, B)")),
     NamedTy(SomeName("myElem"), TypeOther("(A, B)"))}

\* One or two `kind(target)`, the kinds taken from kinds.
Declarations(kinds) ==
    {<< [kind |-> k, named_ty |-> t] >> : k \in kinds, t \in Targets}
    \cup {<< [kind |-> k1, named_ty |-> t1], [kind |-> k2, named_ty |-> t2] >> :
             k1 \in kinds, k2 \in kinds, t1 \in SiblingTargets, t2 \in SiblingTargets}

\* #[derive(Visit)] or #[derive(VisitMut)] #[visit(kind(target), ..)] struct V;
DeriveDecl(mutable, targets) ==
    [k |-> "macro", macro |-> "derive", mutable |-> mutable, targets |-> targets,
     input |-> [attrs |-> << Attr("visit",
                    [t \in 1..Len(targets) |->
                        Option(targets[t].kind, << targets[t].named_ty >>)]) >>]]

\* #[visitable_group(visitor(drive_group(&GroupVisitor)[, infaillible]),
\*                   kind(target), ..)] trait GroupVisitable {}
GroupDecl(faillible, targets) ==
    [k |-> "macro", macro |-> "group", mutable |-> FALSE, targets |-> targets,
     input |-> [visitors |-> << VisitorDef("GroupVisitor", "drive_group", FALSE, faillible) >>,
                args |-> [t \in 1..Len(targets) |->
                            SetVisitableTypes(targets[t].kind, << targets[t].named_ty >>)]]]

InitNames ==
    /\ \/ \E mutable \in BOOLEAN, targets \in Declarations(KindTokens) :
             visitor = DeriveDecl(mutable, targets)
       \/ \E faillible \in BOOLEAN, targets \in Declarations(VisitableTypeKinds) :
             visitor = GroupDecl(faillible, targets)
    /\ types = <<>>
    /\ heap = <<>>
    /\ stack = <<>>
    /\ log = <<>>
    /\ ret = Pending
    /\ result = Pending

\* expand_with(input, |input| impl_visit(input, mutable))
ExpandDerive ==
    /\ visitor.k = "macro" /\ visitor.macro = "derive"
    /\ result = Pending
    /\ result' = impl_visit(visitor.input, visitor.mutable)
    /\ UNCHANGED <<types, heap, visitor, stack, ret, log>>

\* The attribute macro: the options are parsed, then impl_visitable_group.
ExpandGroup ==
    /\ visitor.k = "macro" /\ visitor.macro = "group"
    /\ result = Pending
    /\ result' = expand_visitable_group(Options_parse(visitor.input.visitors, visitor.input.args))
    /\ UNCHANGED <<types, heap, visitor, stack, ret, log>>

NextNames ==
    \/ ExpandDerive
    \/ ExpandGroup

SpecNames == InitNames /\ [][NextNames]_vars

(* ---------------------------------------------------------------------- *)
(* SpecVisitorArgs: the visitor(..) arguments of a visitable_group         *)
(* ---------------------------------------------------------------------- *)

\* The largest number of visitor(..) arguments of a group.
MaxVisitors == 2

\* What is written after the comma of a visitor(..) argument, if anything.
VisitorFlags == {"none", "infallible", "infaillible"}

\* visitor(drive_<i>(&[mut] Visitor<i>)[, flag])
VisitorArg(i, mutability, flag) ==
    SetVisitorTrait(<< "drive_1", "drive_2", "drive_3" >>[i], mutability,
                    << "Visitor1", "Visitor2", "Visitor3" >>[i], flag)

\* #[visitable_group(visitor(..), .., <kind>(u64))]
InitVisitorArgs ==
    /\ \E n \in 1..MaxVisitors : \E muts \in [1..n -> BOOLEAN], flags \in [1..n -> VisitorFlags],
          kind \in VisitableTypeKinds :
          visitor = [k |-> "macro", macro |-> "group_args",
                     input |-> [visitor_args |-> [i \in 1..n |-> VisitorArg(i, muts[i], flags[i])],
                                args |-> << SetVisitableTypes(kind,
                                    << NamedTy(NoName, TypePath("u64", << << "u", "6", "4" >> >>)) >>) >>]]
    /\ types = <<>>
    /\ heap = <<>>
    /\ stack = <<>>
    /\ log = <<>>
    /\ ret = Pending
    /\ result = Pending

\* The attribute macro, on arguments as written.
ExpandGroupArgs ==
    /\ visitor.k = "macro" /\ visitor.macro = "group_args"
    /\ result = Pending
    /\ result' = expand_visitable_group(
                      Options_parse_args(visitor.input.visitor_args, visitor.input.args))
    /\ UNCHANGED <<types, heap, visitor, stack, ret, log>>

NextVisitorArgs == ExpandGroupArgs

SpecVisitorArgs == InitVisitorArgs /\ [][NextVisitorArgs]_vars

(* ---------------------------------------------------------------------- *)
(* SpecDyn: dyn_visitor::drive(x, v) for a derive_visitor visitor v        *)
(* ---------------------------------------------------------------------- *)

\* struct F(L): the type of the root's fields; L is a type of another crate.
DynFieldInput ==
    [data |-> "struct", skip |-> FALSE, variants |-> <<>>,
     fields |-> << [ident |-> "none", skip |-> FALSE, ty |-> "L"] >>]

\* A value of T at node 1, its n fields (of type F) at the nodes 2..n+1, and
\* the L of the i-th of them at node n+1+i.
DynHeap(variant, fields) ==
    << Value("T", variant, fields, 2) >>
    \o [i \in 1..Len(fields) |->
           [ty |-> "F", variant |-> "Self", fields |-> ("0" :> Len(fields) + 1 + i)]]
    \o [i \in 1..Len(fields) |-> Leaf("L")]

\* T and F have derive(Drive, DriveMut) and implement derive_visitor's
\* Drive[Mut] with dyn_visitor::drive[_mut]; L implements it elsewhere.
InitDyn ==
    /\ \E mutable \in BOOLEAN :
          visitor = [k |-> "dyn", mutable |-> mutable, break |-> Infallible,
                     dyn_drive |-> {"T", "F"}]
    /\ \E input \in StructInputs \cup EnumInputs : \E variant \in VariantsOf(input) :
          /\ types = ("T" :> Derived(input)) @@ ("F" :> Derived(DynFieldInput))
                        @@ ("L" :> Builtin("leaf"))
          /\ heap = DynHeap(variant, FieldsOf(input, variant))
    /\ InitRun("call_dyn_drive", DynV)

\* Nothing breaks: the adapter's Break is Infallible.
NextDyn ==
    \/ CallStep
    \/ UserCall(Unit)
    \/ HookStep
    \/ ReturnStep
    \/ Resume

SpecDyn == InitDyn /\ [][NextDyn]_vars

(* ---------------------------------------------------------------------- *)
(* SpecPlan: the impls of derive(Visit[Mut]), from all its attributes      *)
(* ---------------------------------------------------------------------- *)

\* The largest number of targets in the #[visit(..)] attributes of a type.
MaxTargets == 3

\* `u64`, `(A, B)` and `elem: (A, B)`
PlanTargets ==
    {NamedTy(NoName, TypePath("u64", << << "u", "6", "4" >> >>)),
     NamedTy(NoName, TypeOther("(A, B)")),
     NamedTy(SomeName("elem"), TypeOther("(A, B)"))}

\* What follows a target: the next target of the same option ("ty"), a new
\* option of the same attribute ("opt"), or the end of the attribute, a
\* #[doc] attribute and a new #[visit(..)] attribute ("attr").
Separators == {"ty", "opt", "attr"}

\* The attributes written with the given targets (each with the kind token
\* of its option) and separators.
RECURSIVE VisitAttrs(_, _)
VisitAttrs(items, seps) ==
    LET first == Option(items[1].kind, << items[1].named_ty >>) IN
    IF Len(items) = 1 THEN << Attr("visit", << first >>) >>
    ELSE LET rest == VisitAttrs(Tail(items), Tail(seps)) IN
         CASE seps[1] = "attr" -> << Attr("visit", << first >>), Attr("doc", <<>>) >> \o rest
           [] seps[1] = "opt"  -> [rest EXCEPT ![1].options = << first >> \o @]
           [] OTHER            -> [rest EXCEPT ![1].options[1].tys = << items[1].named_ty >> \o @]

\* The targets and separators of a declaration: the targets of one option
\* have its kind token.
PlanDecls ==
    UNION {{d \in [items : [1..n -> [kind : {"none", "drive"}, named_ty : PlanTargets]],
                    seps  : [1..(n - 1) -> Separators]] :
               \A i \in 1..(n - 1) :
                   d.seps[i] = "ty" => d.items[i].kind = d.items[i + 1].kind}
             : n \in 1..MaxTargets}

InitPlan ==
    /\ \E mutable \in BOOLEAN, d \in PlanDecls :
          visitor = [k |-> "macro", macro |-> "derive", mutable |-> mutable,
                     targets |-> d.items,
                     input |-> [attrs |-> VisitAttrs(d.items, d.seps)]]
    /\ types = <<>>
    /\ heap = <<>>
    /\ stack = <<>>
    /\ log = <<>>
    /\ ret = Pending
    /\ result = Pending

NextPlan == ExpandDerive

SpecPlan == InitPlan /\ [][NextPlan]_vars

(* ---------------------------------------------------------------------- *)
(* SpecDeriveDrive: the expansion of derive(Drive) and derive(DriveMut)    *)
(* ---------------------------------------------------------------------- *)

\* The types fields are declared with.
FieldTys == {"A", "B"}

\* Declared fields with the given skip flags and types.
TypedFields(flags, tys, named) ==
    [i \in 1..Len(flags) |->
        [ident |-> IF named THEN FieldNames[i] ELSE "none", skip |-> flags[i], ty |-> tys[i]]]

\* struct T { .. } / struct T(..) / union T { .. }, with or without
\* #[drive(skip)] on the type and on each field; a union has named fields.
StructOrUnionInputs ==
    UNION {{[data |-> data, skip |-> ts, fields |-> TypedFields(fl, tys, nm), variants |-> <<>>]
              : data \in {"struct", "union"}, ts \in BOOLEAN,
                nm \in (IF n = 0 THEN {TRUE} ELSE BOOLEAN),
                fl \in Flags(n), tys \in [1..n -> FieldTys]} : n \in 0..MaxFields}

\* enum T { A .., B .. }, with or without #[drive(skip)] on the type, on
\* each variant and on each field.
TypedEnumInputs ==
    UNION {UNION {{[data |-> "enum", skip |-> ts, fields |-> <<>>,
                    variants |-> << Variant("A", sa, TypedFields(fa, ta, TRUE)),
                                    Variant("B", sb, TypedFields(fb, tb, FALSE)) >>]
                     : ts \in BOOLEAN, sa \in BOOLEAN, sb \in BOOLEAN,
                       fa \in Flags(na), fb \in Flags(nb),
                       ta \in [1..na -> FieldTys], tb \in [1..nb -> FieldTys]}
                  : nb \in 0..(MaxFields - na)} : na \in 0..MaxFields}

\* impl_drive whose match on input.data has no arm that fails.
drive_impl_drive_unions_accepted(input, mutable) ==
    [status |-> "ok", error |-> NoError, impls |-> << impl_drive(input, mutable) >>]

\* drive::impl_drive as a Result: the Err for a union that is not
\* #[drive(skip)] (the guard on attrs.skip is the first arm of the match on
\* input.data), or the impl.
drive_impl_drive(input, mutable) ==
    IF ~input.skip /\ input.data = "union"
    THEN [status |-> "error",
          error  |-> Error_new_spanned("union", "unions are not supported"),
          impls  |-> <<>>]
    ELSE [status |-> "ok", error |-> NoError, impls |-> << impl_drive(input, mutable) >>]

\* expand_with: the tokens of the handler, or the compile_error! its Err
\* is turned into.
expand_with(handled) ==
    [compile_error |-> IF handled.status = "ok" THEN "" ELSE handled.error.message,
     impls         |-> handled.impls]

\* #[derive(<derives>)] <input>
DriveDecl(derives, input) ==
    [k |-> "macro", macro |-> "drive", derives |-> derives, input |-> input]

InitDeriveDrive ==
    /\ \E input \in StructOrUnionInputs \cup TypedEnumInputs,
          derives \in {<< "Drive" >>, << "DriveMut" >>,
                       << "Drive", "DriveMut" >>, << "DriveMut", "Drive" >>} :
          visitor = DriveDecl(derives, input)
    /\ types = <<>>
    /\ heap = <<>>
    /\ stack = <<>>
    /\ log = <<>>
    /\ ret = Pending
    /\ result = Pending

\* The next derive of the list is Drive: its expansion is emitted.
derive_drive ==
    /\ visitor.k = "macro" /\ visitor.macro = "drive"
    /\ Len(log) < Len(visitor.derives)
    /\ visitor.derives[Len(log) + 1] = "Drive"
    /\ log' = Append(log, expand_with(drive_impl_drive(visitor.input, FALSE)))
    /\ UNCHANGED <<types, heap, visitor, stack, ret, result>>

\* The next derive of the list is DriveMut.
derive_drive_mut ==
    /\ visitor.k = "macro" /\ visitor.macro = "drive"
    /\ Len(log) < Len(visitor.derives)
    /\ visitor.derives[Len(log) + 1] = "DriveMut"
    /\ log' = Append(log, expand_with(drive_impl_drive(visitor.input, TRUE)))
    /\ UNCHANGED <<types, heap, visitor, stack, ret, result>>

NextDeriveDrive ==
    \/ derive_drive
    \/ derive_drive_mut

SpecDeriveDrive == InitDeriveDrive /\ [][NextDeriveDrive]_vars

(* ---------------------------------------------------------------------- *)
(* The drivers of tuples and collections, driven alone (SpecBuiltin)       *)
(* ---------------------------------------------------------------------- *)

\* The tuples and collections with a Drive and a DriveMut impl, and a
\* collection of another crate, which has neither and is driven with
\* drive_iter(&c, v) or drive_iter_mut(&mut c, v): how each is driven.
BuiltinImpls ==
    ("(F, F)" :> "tuple2") @@ ("(F, F, F)" :> "tuple3") @@ ("Vec<F>" :> "iter")
        @@ ("Option<F>" :> "iter") @@ ("[F; N]" :> "iter") @@ ("HashSet<F>" :> "none")

\* The numbers of elements a value of the type can have.
BuiltinLens(ty) ==
    CASE ty = "(F, F)"    -> {2}
      [] ty = "(F, F, F)" -> {3}
      [] ty = "Option<F>" -> {0, 1}
      [] OTHER            -> 0..MaxList

\* A tuple or a collection of leaves, driven with a hand-written visitor
\* whose visit may return anything.
InitBuiltin ==
    /\ \E mutable \in BOOLEAN : visitor = [k |-> "oracle", mutable |-> mutable, break |-> BreakVals]
    /\ \E ty \in DOMAIN BuiltinImpls : \E n \in BuiltinLens(ty) :
          /\ types = (ty :> Builtin(BuiltinImpls[ty])) @@ ("F" :> Builtin("leaf"))
          /\ heap = HeapOf(ty, "Self", TupleFields(n), "F")
          /\ InitRun(IF BuiltinImpls[ty] = "none" THEN "call_drive_iter" ELSE "call_drive_inner",
                     OracleV)

NextBuiltin ==
    \/ CallStep
    \/ \E r \in ControlFlows : UserCall(r)
    \/ ReturnStep
    \/ Resume
    \/ Propagate

SpecBuiltin == InitBuiltin /\ [][NextBuiltin]_vars

(* ---------------------------------------------------------------------- *)
(* SpecTraverse: a whole traversal with the generated defaults             *)
(* ---------------------------------------------------------------------- *)

\* The expressions of Exprs(d) up to the values of their literals.
RECURSIVE Shapes(_)
Shapes(d) ==
    {[tag |-> "Literal", n |-> 0]}
    \cup (IF d = 0 THEN {}
          ELSE {[tag |-> "Let", rhs |-> r, body |-> b] : r \in Shapes(d - 1), b \in Shapes(d - 1)})

\* A visitor whose impl of the visitor trait overrides no method.
DefaultVisitor == << UserImpl("default", "default", {}, {}) >>

\* v.visit(&x) and v.visit_by_val(&x).
TraverseEntries == {"call_visit", "call_visit_by_val"}

\* An expression of the AST group, whatever the kind of Pat.
InitTraverseAst ==
    /\ \E kp \in VisitableTypeKinds : visitor = GroupProgram(AstOptions(kp), 1, DefaultVisitor)
    /\ types = AstTypes
    /\ \E e \in Shapes(MaxDepth) : heap = ExprHeap(e, 1)
    /\ \E entry \in TraverseEntries : InitRun(entry, GroupV(0))

\* A list of the list group, with either trait, faillible or not, whatever
\* the kinds of List, Box and Node.
InitTraverseList ==
    /\ \E f \in BOOLEAN, vis \in 1..2,
          kl \in VisitableTypeKinds, kb \in VisitableTypeKinds, kn \in VisitableTypeKinds :
          visitor = GroupProgram(GroupOptions(f, ~f, kl, kb, kn), vis, DefaultVisitor)
    /\ types = GroupTypes
    /\ \E n \in 0..MaxLen : heap = ListHeap(n)
    /\ \E entry \in TraverseEntries : InitRun(entry, GroupV(0))

InitTraverse == InitTraverseAst \/ InitTraverseList

\* No hand-written method is called but the enter_ and exit_ hooks, which
\* return; nothing returns Break.
NextTraverse ==
    \/ CallStep
    \/ HookStep
    \/ ReturnStep
    \/ Resume

\* The program is one thread that runs until its entry point returns.
SpecTraverse == InitTraverse /\ [][NextTraverse]_vars /\ WF_vars(NextTraverse)

(* ---------------------------------------------------------------------- *)
(* Properties of the derived drive_inner / drive_inner_mut (SpecDrive)     *)
(* ---------------------------------------------------------------------- *)

Done == stack = <<>>

RootInput == types["T"].input

RootDerived == types["T"].impl = "derived"

\* The declared variant the driven value is (its position among the variants).
RootVariantSkipped ==
    /\ RootInput.data = "enum"
    /\ \E i \in 1..Len(RootInput.variants) :
          /\ RootInput.variants[i].ident = heap[1].variant
          /\ RootInput.variants[i].skip

RootFields == FieldsOf(RootInput, heap[1].variant)

\* The calls of the log to method fn, in order.
CallsTo(fn) == SelectSeq(log, LAMBDA e : e.ev = "call" /\ e.fn = fn)

\* The nodes passed to visitor.visit, in call order.
Visited == [k \in 1..Len(CallsTo("visit")) |-> CallsTo("visit")[k].x]

\* The nodes of the retained fields of the driven value, in declared order.
Retained ==
    LET keep == SelectSeq([i \in 1..Len(RootFields) |-> i], LAMBDA i : ~RootFields[i].skip)
    IN [k \in 1..Len(keep) |-> keep[k] + 1]

NoBreak == \A i \in 1..Len(log) : ~IsBreak(log[i].res)

IsPrefix(s, t) == Len(s) <= Len(t) /\ \A i \in 1..Len(s) : s[i] = t[i]

\* C1: in the derived drive_inner[_mut], once the visit of a retained field
\* has returned Break(b), no later field of the value is visited and the
\* routine returns that Break(b); it returns Continue only if every retained
\* field's visit returned Continue.
C1_ShortCircuit ==
    RootDerived =>
        \A i \in 1..Len(log) :
            (log[i].ev = "ret" /\ log[i].fn = "visit" /\ IsBreak(log[i].res)) =>
                /\ \A j \in (i + 1)..Len(log) : ~(log[j].ev = "call" /\ log[j].fn = "visit")
                /\ Done => result = log[i].res

\* C2: when no visit breaks, the visit calls made by the derived drive_inner
\* are the retained fields of the value in declared order: skipped fields
\* are absent, nothing is reordered or duplicated, for named and positional
\* fields alike.
C2_FieldOrder ==
    (RootDerived /\ ~RootInput.skip /\ ~RootVariantSkipped /\ NoBreak) =>
        /\ IsPrefix(Visited, Retained)
        /\ Done => Visited = Retained

\* A finished drive of a value with three declared fields, the middle one
\* skipped, where no visit broke.
C2_Witness ==
    /\ Done /\ RootDerived /\ ~RootInput.skip /\ ~RootVariantSkipped /\ NoBreak
    /\ Len(RootFields) = 3 /\ RootFields[2].skip
    /\ Len(Visited) = 2

\* C3: on an enum, every visit is made by the arm of the variant the value
\* is and is given one of that value's fields; a fieldless variant gives no
\* visit and Continue.
C3_OnlyOwnVariant ==
    (RootDerived /\ RootInput.data = "enum") =>
        /\ \A k \in 1..Len(CallsTo("visit")) :
              /\ CallsTo("visit")[k].by = heap[1].variant
              /\ CallsTo("visit")[k].x \in Range(Retained)
        /\ RootFields = <<>> => (Visited = <<>> /\ (Done => result = Continue))

\* A finished drive of a value of the second variant of an enum whose first
\* variant also has retained fields.
C3_Witness ==
    /\ Done /\ RootDerived /\ RootInput.data = "enum" /\ ~RootInput.skip
    /\ heap[1].variant = "B"
    /\ Len(Visited) >= 1
    /\ ~RootInput.variants[1].skip
    /\ \E i \in 1..Len(RootInput.variants[1].fields) : ~RootInput.variants[1].fields[i].skip

\* C4: a #[drive(skip)] type, and a value of a #[drive(skip)] variant, is
\* driven as a no-op: no visitor call and Continue, whatever its fields;
\* the other variants of the same enum are still traversed.
C4_SkipIsNoOp ==
    RootDerived =>
        /\ (RootInput.skip \/ RootVariantSkipped) =>
              (CallsTo("visit") = <<>> /\ (Done => result = Continue))
        /\ (~RootInput.skip /\ ~RootVariantSkipped /\ Done
              /\ \E i \in 1..Len(RootInput.variants) : RootInput.variants[i].skip) =>
              Range(Visited) = Range(Retained)

\* A finished drive of a value of a skipped variant that has a field which
\* is not itself skipped.
C4_Witness ==
    /\ Done /\ RootDerived /\ RootVariantSkipped /\ ~RootInput.skip
    /\ \E i \in 1..Len(RootFields) : ~RootFields[i].skip
    /\ result = Continue

(* ---------------------------------------------------------------------- *)
(* Properties of the derived Visit / VisitMut impls (SpecVisit)            *)
(* ---------------------------------------------------------------------- *)

RootOption == visitor.input.attrs[2].options[1]

\* The method-name fragment of the root target: the explicit name, else the
\* one expected for the way its type is written (T, Box<F>).
RootName ==
    IF RootOption.tys[1].name.some THEN RootOption.tys[1].name.ident
    ELSE IF types["T"].impl = "box" THEN "box" ELSE "t"

IsCall(e, fns, x) == e.ev = "call" /\ e.fn \in fns /\ e.x = x

IsRet(e, fns, x) == e.ev = "ret" /\ e.fn \in fns /\ e.x = x

IsHook(e, x) == e.ev = "hook" /\ e.x = x

RootDriveCalls == SelectSeq(log, LAMBDA e : IsCall(e, DriveMethods, 1))

RootDriveRets == SelectSeq(log, LAMBDA e : IsRet(e, DriveMethods, 1))

RootHooks == SelectSeq(log, LAMBDA e : IsHook(e, 1))

\* Whether entry i of the log lies inside a call of fn on node x.
Inside(i, fn, x) ==
    \E j \in 1..(i - 1) :
        /\ IsCall(log[j], {fn}, x)
        /\ \A k \in (j + 1)..(i - 1) : ~IsRet(log[k], {fn}, x)

\* C5: for a target tagged override(..) or written bare, the generated visit
\* calls the user's visit_<name>(x) once and returns its Break unchanged,
\* Continue otherwise; drive_inner runs on x only inside that user method,
\* so the fields of x are visited only if the user method does so.
C5_Override ==
    RootOption.kind_token \in {"none", "override"} =>
        LET m     == "visit_" \o RootName
            calls == SelectSeq(log, LAMBDA e : IsCall(e, {m}, 1))
            rets  == SelectSeq(log, LAMBDA e : IsRet(e, {m}, 1))
        IN /\ Len(calls) <= 1
           /\ \A i \in 1..Len(log) :
                 (log[i].ev = "call" /\ log[i].x = 1) =>
                     log[i].fn \in {"visit", m} \cup DriveMethods
           /\ RootHooks = <<>>
           /\ \A i \in 1..Len(log) : IsCall(log[i], DriveMethods, 1) => Inside(i, m, 1)
           /\ m \notin visitor.user_drives =>
                 \A i \in 1..Len(log) : log[i].ev = "call" => log[i].x = 1
           /\ Done => /\ Len(calls) = 1 /\ Len(rets) = 1
                      /\ result = IF IsBreak(rets[1].res) THEN rets[1].res ELSE Continue

\* A finished visit of a bare target with an inferred name whose user method
\* returned Break(b2).
C5_Witness ==
    /\ Done /\ RootOption.kind_token = "none" /\ ~RootOption.tys[1].name.some
    /\ \E i \in 1..Len(log) : IsRet(log[i], {"visit_t"}, 1) /\ log[i].res = Break("b2")
    /\ result = Break("b2")

\* C6: for a target tagged enter(..), the generated visit calls
\* enter_<name>(x) once, before the drive and so before any field of x is
\* visited; the hook has run also when the drive short-circuits, and the
\* visit returns what the drive returned.
C6_Enter ==
    RootOption.kind_token = "enter" =>
        LET h == "enter_" \o RootName IN
        /\ Len(RootHooks) <= 1
        /\ \A k \in 1..Len(RootHooks) : RootHooks[k].fn = h
        /\ \A i \in 1..Len(log) :
              (IsCall(log[i], DriveMethods, 1) \/ (log[i].ev = "call" /\ log[i].x # 1)) =>
                  \E j \in 1..(i - 1) : IsHook(log[j], 1)
        /\ Done => /\ Len(RootHooks) = 1
                   /\ Len(RootDriveCalls) = 1 /\ Len(RootDriveRets) = 1
                   /\ result = RootDriveRets[1].res

\* A finished visit of an enter(..) target whose drive short-circuited after
\* the hook had run.
C6_Witness ==
    /\ Done /\ RootOption.kind_token = "enter"
    /\ Len(RootHooks) = 1 /\ Len(RootDriveRets) = 1
    /\ IsBreak(RootDriveRets[1].res)
    /\ result = RootDriveRets[1].res

\* C7: for a target tagged exit(..), the generated visit drives x first and
\* calls exit_<name>(x) once if and only if the drive returned Continue;
\* after a short-circuited drive the hook is not called and the Break is
\* returned unchanged.
C7_Exit ==
    RootOption.kind_token = "exit" =>
        LET h == "exit_" \o RootName IN
        /\ Len(RootHooks) <= 1
        /\ \A i \in 1..Len(log) :
              IsHook(log[i], 1) =>
                  /\ log[i].fn = h
                  /\ \E j \in 1..(i - 1) : IsRet(log[j], DriveMethods, 1) /\ log[j].res = Continue
        /\ Done => /\ Len(RootDriveCalls) = 1 /\ Len(RootDriveRets) = 1
                   /\ Len(RootHooks) = 1 <=> RootDriveRets[1].res = Continue
                   /\ IsBreak(RootDriveRets[1].res) =>
                         (RootHooks = <<>> /\ result = RootDriveRets[1].res)
                   /\ RootDriveRets[1].res = Continue => result = Continue

\* A finished visit of an exit(..) target whose drive short-circuited: no
\* hook was called and the Break came back.
C7_Witness ==
    /\ Done /\ RootOption.kind_token = "exit"
    /\ Len(RootDriveRets) = 1 /\ IsBreak(RootDriveRets[1].res)
    /\ RootHooks = <<>>
    /\ result = RootDriveRets[1].res

(* ---------------------------------------------------------------------- *)
(* Properties of the code generated for a visitable group (SpecGroup)      *)
(* ---------------------------------------------------------------------- *)

\* The visitor(..) argument of the trait in use.
VisDef == visitor.options.visitors[visitor.vis]

\* The kind the group gives the type of the value at node x.
GroupKind(x) ==
    LET tys == visitor.options.tys
        i   == CHOOSE i \in 1..Len(tys) : tys[i].ty = heap[x].ty
    IN tys[i].kind

\* Where the log has an entry ev of fn on node x with visitor v.
At(ev, fn, x, v) ==
    {i \in 1..Len(log) : log[i].ev = ev /\ log[i].fn = fn /\ log[i].x = x /\ log[i].v = v}

Is(e, ev, fn, x, v) == e.ev = ev /\ e.fn = fn /\ e.x = x /\ e.v = v

Once(S) == Cardinality(S) = 1

\* Every index of S is smaller than every index of T.
Before(S, T) == \A i \in S : \A j \in T : i < j

\* The method a drive method calls on the visitor.
Callee(kind) ==
    CASE kind.tag = "Drive"    -> "visit_inner"
      [] kind.tag = "Override" -> "visit_" \o kind.name
      [] OTHER                 -> "none"

\* C8: the drive method generated for a participant dispatches by its tag,
\* for every visitor trait of the group: skip returns success without a
\* call on the visitor; drive calls v.visit_inner(self); override and
\* override_skip call v.visit_<name>(self); what the call returns is what
\* the drive method returns.
C8_Dispatch ==
    /\ \A i \in 1..Len(visitor.gen.impls) :
          /\ Len(visitor.gen.impls[i].items) = Len(visitor.options.visitors)
          /\ \A j \in 1..Len(visitor.options.visitors) :
                visitor.gen.impls[i].items[j].name = visitor.options.visitors[j].method_name
    /\ \A i \in 1..Len(log) :
          (log[i].ev = "call" /\ log[i].fn = VisDef.method_name) =>
              LET x    == log[i].x
                  v    == log[i].v
                  kind == GroupKind(x)
              IN /\ i < Len(log) =>
                       IF kind.tag = "Skip"
                       THEN /\ Is(log[i + 1], "ret", VisDef.method_name, x, v)
                            /\ log[i + 1].res = IF VisDef.faillible THEN Continue ELSE Unit
                       ELSE Is(log[i + 1], "call", Callee(kind), x, v)
                 /\ Cardinality(At("call", VisDef.method_name, x, v)) = 1
                 /\ \A j \in At("ret", VisDef.method_name, x, v) :
                       /\ j > i
                       /\ kind.tag # "Skip" =>
                             /\ Is(log[j - 1], "ret", Callee(kind), x, v)
                             /\ log[j].res = log[j - 1].res

\* The drive method of an override_skip participant called visit_<name>
\* and returned the Break it got.
C8_Witness ==
    \E i \in 1..Len(log) :
        /\ log[i].ev = "ret" /\ log[i].fn = VisDef.method_name
        /\ GroupKind(log[i].x).tag = "Override" /\ GroupKind(log[i].x).skip
        /\ IsBreak(log[i].res)
        /\ Is(log[i - 1], "ret", "visit_" \o GroupKind(log[i].x).name, log[i].x, log[i].v)

\* The nodes that hold a value of a type of the group.
GroupNodes == {x \in 1..Len(heap) : heap[x].ty # "u32"}

\* Whether layer l of the visitor has the default visit_<name> of kind.
HasDefault(kind, l) ==
    "visit_" \o kind.name \notin visitor.user[l + 1].opaque \cup visitor.user[l + 1].then_inner

\* C9: the default visit_<name> of an override participant calls
\* enter_<name> once, before it recurses with visit_inner, and calls
\* exit_<name> once afterwards if and only if visit_inner did not return
\* Break; a Break of visit_inner is returned and exit_<name> is not called.
C9_EnterExit ==
    \A x \in GroupNodes : \A l \in 0..visitor.layers :
        LET kind   == GroupKind(x)
            v      == GroupV(l)
            enters == At("hook", "enter_" \o kind.name, x, v)
            exits  == At("hook", "exit_" \o kind.name, x, v)
            inner  == At("call", "visit_inner", x, v)
            inret  == At("ret", "visit_inner", x, v)
            calls  == At("call", "visit_" \o kind.name, x, v)
            rets   == At("ret", "visit_" \o kind.name, x, v)
        IN (kind.tag = "Override" /\ ~kind.skip /\ HasDefault(kind, l)) =>
              /\ Cardinality(enters) <= 1 /\ Cardinality(exits) <= 1
              /\ Cardinality(inner) <= 1 /\ Cardinality(calls) <= 1
              /\ Before(calls, enters) /\ Before(enters, inner)
              /\ inner # {} => enters # {}
              /\ \A i \in exits : \E j \in inret : j < i /\ ~IsBreak(log[j].res)
              /\ \A i \in rets :
                    /\ Once(enters) /\ Once(inner) /\ Once(inret)
                    /\ \A j \in inret :
                          IF IsBreak(log[j].res)
                          THEN exits = {} /\ log[i].res = log[j].res
                          ELSE Once(exits) /\ Before(exits, {i}) /\ ~IsBreak(log[i].res)

\* A default visit_<name> whose visit_inner returned Break: enter_<name>
\* was called, exit_<name> was not, and the Break was returned.
C9_Witness ==
    \E x \in GroupNodes : \E l \in 0..visitor.layers :
        LET kind == GroupKind(x)
            v    == GroupV(l)
        IN /\ kind.tag = "Override" /\ ~kind.skip /\ HasDefault(kind, l)
           /\ Once(At("hook", "enter_" \o kind.name, x, v))
           /\ At("hook", "exit_" \o kind.name, x, v) = {}
           /\ \E i \in At("ret", "visit_" \o kind.name, x, v) :
                 \E j \in At("ret", "visit_inner", x, v) :
                     IsBreak(log[j].res) /\ log[i].res = log[j].res

\* The visitor has wrappers stacked at the visit of the base visitor.
Stacked == visitor.layers >= 1

\* The nodes the base visitor was asked to visit whose kind has their
\* fields driven: drive and override participants.
DrivenNodes ==
    {x \in GroupNodes :
        /\ At("call", "visit", x, GroupV(0)) # {}
        /\ GroupKind(x).tag # "Skip" /\ ~GroupKind(x).skip}

\* The fields of x were driven once, by the visit_inner of the base visitor
\* with the generated wrapper around it.
DrivenOnce(x) ==
    /\ Once({i \in 1..Len(log) : IsCall(log[i], DriveMethods, x)})
    /\ \A i \in 1..Len(log) :
          IsCall(log[i], DriveMethods, x) =>
              /\ log[i].v = AdapterV(0)
              /\ Inside(i, "visit_inner", x)
              /\ At("call", "visit_inner", x, GroupV(0)) # {}

\* Layer l ran visit_<name>, enter_<name> and exit_<name> once each on x.
LayerOnce(x, l) ==
    /\ Once(At("call", "visit_" \o GroupKind(x).name, x, GroupV(l)))
    /\ Once(At("hook", "enter_" \o GroupKind(x).name, x, GroupV(l)))
    /\ Once(At("hook", "exit_" \o GroupKind(x).name, x, GroupV(l)))

NodeVals == [i \in 1..((Len(heap) - 1) \div 4) |-> heap[4 * i - 1].val]

RECURSIVE Sum(_)
Sum(s) == IF s = <<>> THEN 0 ELSE Head(s) + Sum(Tail(s))

\* C11: visiting the list of v_0..v_n with MyVisitor, whose visit wraps
\* itself as DepthWrapper(SumWrapper(self)), ends with sum = v_0 + .. + v_n
\* and total = 1*v_0 + 2*v_1 + .. + (n+1)*v_n: MyVisitor's visit_node is
\* entered on the i-th node (0-based) when depth is i+1.
C11_WrapperTotals ==
    /\ Done =>
          /\ result = TheVisitor
          /\ visitor.my.sum = Sum(NodeVals)
          /\ visitor.my.total = Sum([i \in DOMAIN NodeVals |-> i * NodeVals[i]])
    /\ \A k \in 1..Len(stack) :
          (stack[k].fn = "visit_node" /\ stack[k].v = GroupV(0) /\ k = Len(stack)
             /\ stack[k].pc = 1 /\ stack[k].st = "run")
          => visitor.my.depth = (stack[k].x + 2) \div 4

\* A list of three values has been visited, the depth having weighed in.
C11_Witness ==
    /\ Done
    /\ Len(NodeVals) = 3
    /\ NodeVals[1] = 1 /\ NodeVals[3] = 2
    /\ visitor.my.sum = 3 + NodeVals[2]
    /\ visitor.my.total = 7 + 2 * NodeVals[2]
    /\ \E i \in 1..Len(log) : Is(log[i], "call", "visit_node", 10, GroupV(0))

(* ---------------------------------------------------------------------- *)
(* Properties of visit_by_val and visit_by_val_infallible (SpecByVal)      *)
(* ---------------------------------------------------------------------- *)

\* The entry point of a run that is over.
Entry == log[Len(log)].fn

\* The visitor the run was started on.
EntryV == log[Len(log)].v

\* Whether the visitor's methods return a ControlFlow.
Fallible == visitor.k = "group" => visitor.options.visitors[visitor.vis].faillible

\* C12: on a visitor whose Break is Infallible, visit_by_val_infallible(x)
\* gives the visitor back, for every x; all it runs is one visit_by_val(x),
\* which runs one visit(x), and nothing returns Break.
C12_ByValInfallible ==
    (Done /\ Entry = "call_visit_by_val_infallible") =>
        LET n == Len(log) IN
        /\ result = TheVisitor
        /\ Is(log[1], "call", "visit_by_val_infallible", 1, EntryV)
        /\ Is(log[2], "call", "visit_by_val", 1, EntryV)
        /\ Is(log[3], "call", "visit", 1, EntryV)
        /\ Is(log[n - 3], "ret", "visit", 1, EntryV)
        /\ Is(log[n - 2], "ret", "visit_by_val", 1, EntryV)
        /\ Is(log[n - 1], "ret", "visit_by_val_infallible", 1, EntryV)
        /\ Once(At("call", "visit", 1, EntryV))
        /\ Once(At("ret", "visit", 1, EntryV))
        /\ \A i \in 1..n : ~IsBreak(log[i].res)

\* visit_by_val_infallible of the list visitor trait has visited a list of
\* one node, whose hooks have run.
C12_Witness ==
    /\ Done /\ Entry = "call_visit_by_val_infallible"
    /\ visitor.k = "group"
    /\ result = TheVisitor
    /\ \E i \in 1..Len(log) : log[i].ev = "hook" /\ log[i].fn = "exit_node" /\ log[i].x = 2

\* C13: visit_by_val(x) runs visit(x) exactly once and nothing else; where
\* visit returns a ControlFlow it returns Continue(visitor) if visit
\* returned Continue and the same Break(b) if visit returned Break(b); in
\* an infaillible visitor trait it returns the visitor.
C13_ByVal ==
    (Done /\ Entry = "call_visit_by_val") =>
        LET n == Len(log) IN
        /\ Is(log[1], "call", "visit_by_val", 1, EntryV)
        /\ Is(log[2], "call", "visit", 1, EntryV)
        /\ Is(log[n - 2], "ret", "visit", 1, EntryV)
        /\ Is(log[n - 1], "ret", "visit_by_val", 1, EntryV)
        /\ Once(At("call", "visit", 1, EntryV))
        /\ Once(At("ret", "visit", 1, EntryV))
        /\ log[n - 1].res = result
        /\ result = IF ~Fallible THEN TheVisitor
                    ELSE IF IsBreak(log[n - 2].res) THEN log[n - 2].res
                    ELSE ContinueSelf
        /\ Fallible => log[n - 2].res \in {Continue} \cup {Break(b) : b \in visitor.break}

\* visit_by_val of a faillible list visitor trait has returned the Break
\* its visit returned.
C13_Witness ==
    /\ Done /\ Entry = "call_visit_by_val"
    /\ visitor.k = "group" /\ Fallible
    /\ result = Break("b2")
    /\ \E i \in 1..Len(log) : Is(log[i], "ret", "visit", 1, GroupV(0)) /\ log[i].res = Break("b2")

(* ---------------------------------------------------------------------- *)
(* Properties of a derived visitor on a recursive list (SpecList)          *)
(* ---------------------------------------------------------------------- *)

\* The returns of visit_elem that are a Break.
ElemBreaks ==
    {i \in 1..Len(log) : log[i].ev = "ret" /\ log[i].fn = "visit_elem" /\ IsBreak(log[i].res)}

\* C14: visit_by_val on a list returns Break iff visit_elem returned Break
\* for some element and Continue otherwise, and no element is visited after
\* the first one visit_elem broke on.
C14_EarlyExit ==
    Done =>
        /\ IsBreak(result) <=> ElemBreaks # {}
        /\ ~IsBreak(result) => result = ContinueSelf
        /\ \A i \in ElemBreaks : \A j \in (i + 1)..Len(log) :
              ~(log[j].ev = "call" /\ log[j].fn = "visit_elem")

(* ---------------------------------------------------------------------- *)
(* Properties of an infaillible visitor of a group (SpecAst)               *)
(* ---------------------------------------------------------------------- *)

\* The nodes of the heap that hold a value of type ty.
NodesOf(ty) == {x \in DOMAIN heap : heap[x].ty = ty}

\* The literals of the visited expression, one per Literal node.
Literals ==
    {<<x, heap[heap[x].fields["0"]].val>> : x \in {y \in NodesOf("Expr") : heap[y].variant = "Literal"}}

RECURSIVE SumOf(_)
SumOf(S) == IF S = {} THEN 0 ELSE LET p == CHOOSE p \in S : TRUE IN p[2] + SumOf(S \ {p})

\* C15: a visitor of an infaillible group that overrides enter_expr only:
\* visit(x) calls enter_expr exactly once on every Expr of x, those in a Box
\* included, never visits what an Id (override_skip) holds, and returns ();
\* a visitor that adds up the literals ends with their sum.
C15_InfaillibleSum ==
    Done =>
        /\ result = Unit
        /\ \A x \in NodesOf("Expr") :
              Cardinality({i \in 1..Len(log) : log[i].ev = "hook" /\ log[i].fn = "enter_expr"
                                                 /\ log[i].x = x /\ log[i].v = GroupV(0)}) = 1
        /\ \A x \in NodesOf("Id") :
              /\ At("call", "visit_id", x, GroupV(0)) # {}
              /\ \A i \in 1..Len(log) : log[i].x # heap[x].fields["0"]
        /\ \A i \in 1..Len(log) : log[i].res.tag \in {"Unit", "Pending", "Continue"}
        /\ visitor.my.sum = SumOf(Literals)

\* Let { lhs, rhs: Literal(1), body: Literal(2) } has been visited: sum is 3.
C15_Witness ==
    /\ Done
    /\ visitor.k = "group" /\ ~Fallible
    /\ heap[1].variant = "Let"
    /\ Literals = {<<7, 1>>, <<9, 2>>}
    /\ visitor.my.sum = 3
    /\ At("call", "visit_id", 3, GroupV(0)) # {}

(* ---------------------------------------------------------------------- *)
(* Properties of method names and of failed name inference (SpecNames)     *)
(* ---------------------------------------------------------------------- *)

\* The declaration has been expanded.
Expanded == visitor.k = "macro" /\ result # Pending

TargetIds == 1..Len(visitor.targets)

\* The target is of a kind that gives its name to methods.
Naming(t) ==
    visitor.targets[t].kind \in (IF visitor.macro = "derive"
                                 THEN {"none", "override", "enter", "exit"}
                                 ELSE {"override", "override_skip"})

\* The target is written without `name:`.
Bare(t) == ~visitor.targets[t].named_ty.name.some

TargetTy(t) == visitor.targets[t].named_ty.ty

\* The user methods that the code generated for target t calls.
TargetMethods(t) ==
    IF visitor.macro = "derive"
    THEN IF t \in DOMAIN result.impls
         THEN {result.impls[t].body[k].fn :
                  k \in {j \in 1..Len(result.impls[t].body) :
                            result.impls[t].body[j].op \in {"user", "hook"}}}
         ELSE {}
    ELSE IF t \in DOMAIN result.gen.impls
         THEN {result.gen.impls[t].items[1].body[k].fn :
                  k \in {j \in 1..Len(result.gen.impls[t].items[1].body) :
                            result.gen.impls[t].items[1].body[j].op = "call"}}
         ELSE {}

\* The methods of the generated visitor trait.
TraitMethodNames ==
    IF visitor.macro = "derive" \/ result.gen.traits = <<>> THEN {}
    ELSE {result.gen.traits[1].methods[i].name : i \in 1..Len(result.gen.traits[1].methods)}

\* The method of a derive target, from its kind: visit_, enter_ or exit_.
HookPrefix(kind) ==
    CASE kind = "enter" -> "enter_" [] kind = "exit" -> "exit_" [] OTHER -> "visit_"

\* The methods of target t are those made from name.
NamedAs(t, name) ==
    IF visitor.macro = "derive"
    THEN TargetMethods(t) = {HookPrefix(visitor.targets[t].kind) \o name}
    ELSE /\ TargetMethods(t) = {"visit_" \o name}
         /\ {"visit_" \o name, "enter_" \o name, "exit_" \o name} \subseteq TraitMethodNames

\* A target whose name has to be made up and cannot be.
Unnameable(t) == Naming(t) /\ Bare(t) /\ TargetTy(t) \in OtherTypes

\* C16 as stated: the name made up for an upper-camel type is its snake
\* case with a digit split from the letter before it: HtmlParser5 gives
\* html_parser_5, in the derive and in visitable_group.
C16_SplitsDigit ==
    Expanded =>
        \A t \in TargetIds :
            (Naming(t) /\ Bare(t) /\ TargetTy(t).key = "HtmlParser5" /\ result.status = "ok")
            => NamedAs(t, "html_parser_5")

\* C16 as amended: the name made up for an upper-camel type is its snake
\* case, a digit staying with the letter before it: HtmlParser5 gives
\* html_parser5 (MyList my_list, HTTPServer http_server, X2Y x2_y), in the
\* derive and in visitable_group.
C16_SnakeCase ==
    LET snake == ("HtmlParser5" :> "html_parser5") @@ ("HTTPServer" :> "http_server")
                     @@ ("MyList" :> "my_list") @@ ("X2Y" :> "x2_y") @@ ("T" :> "t")
    IN Expanded =>
        \A t \in TargetIds :
            (Naming(t) /\ Bare(t) /\ TargetTy(t).key \in DOMAIN snake)
            => /\ Len(visitor.targets) = 1 => result.status = "ok"
               /\ result.status = "ok" => NamedAs(t, snake[TargetTy(t).key])

\* visitable_group(override(HtmlParser5)) has been expanded: the trait has
\* visit_html_parser5.
C16_Witness ==
    /\ Expanded /\ visitor.macro = "group"
    /\ Len(visitor.targets) = 1 /\ Bare(1) /\ visitor.targets[1].kind = "override"
    /\ TargetTy(1).key = "HtmlParser5"
    /\ "visit_html_parser5" \in TraitMethodNames

\* C17: a bare target u64 or u32 of the derive is named u64 or u32 (the
\* impl calls visit_u64, enter_u32), and a bare Node<T> is named node.
C17_DigitsAttached ==
    LET names == ("u64" :> "u64") @@ ("u32" :> "u32") @@ ("Node<T>" :> "node")
    IN (Expanded /\ visitor.macro = "derive") =>
        \A t \in TargetIds :
            (Naming(t) /\ Bare(t) /\ TargetTy(t).key \in DOMAIN names)
            => /\ Len(visitor.targets) = 1 => result.status = "ok"
               /\ result.status = "ok" => NamedAs(t, names[TargetTy(t).key])

\* #[visit(enter(u32))] has been expanded: the impl calls enter_u32.
C17_Witness ==
    /\ Expanded /\ visitor.macro = "derive"
    /\ Len(visitor.targets) = 1 /\ Bare(1) /\ visitor.targets[1].kind = "enter"
    /\ TargetTy(1).key = "u32"
    /\ TargetMethods(1) = {"enter_u32"}

\* C18: a target written `name: Type` gives visit_<name>, enter_<name>,
\* exit_<name> with the name as written, whatever the type is.
C18_ExplicitName ==
    Expanded =>
        \A t \in TargetIds :
            (Naming(t) /\ ~Bare(t))
            => /\ (\A u \in TargetIds : ~Unnameable(u)) => result.status = "ok"
               /\ result.status = "ok"
                     => NamedAs(t, visitor.targets[t].named_ty.name.ident)

\* #[visit(exit(myElem: (A, B)))] has been expanded: the impl calls
\* exit_myElem.
C18_Witness ==
    /\ Expanded /\ visitor.macro = "derive"
    /\ Len(visitor.targets) = 1 /\ ~Bare(1) /\ visitor.targets[1].kind = "exit"
    /\ TargetTy(1) = TypeOther("(A, B)")
    /\ TargetMethods(1) = {"exit_myElem"}

\* C19: a declaration whose one target needs a name, has none and is not a
\* single-segment named type expands to an error that is about that type
\* and says to write a name before it; nothing is generated, and the
\* expansion does not panic.
C19_ErrorValue ==
    (Expanded /\ Len(visitor.targets) = 1 /\ Unnameable(1)) =>
        /\ result.status = "error"
        /\ result.error.span = TargetTy(1).key
        /\ result.error.message =
              "Cannot make up a method name for this type; provide one by writing 'foo: ' before the type"
        /\ TargetMethods(1) = {}

\* C20: when the name of one target cannot be made up, every other target
\* of the declaration that has a name or needs none still gets its impl.
C20_SiblingsUnaffected ==
    Expanded =>
        \A t \in TargetIds : \A u \in TargetIds :
            (Unnameable(t) /\ ~Unnameable(u))
            => IF visitor.macro = "derive"
               THEN u \in DOMAIN result.impls /\ result.impls[u].ty = TargetTy(u)
               ELSE u \in DOMAIN result.gen.impls /\ result.gen.impls[u].ty = TargetTy(u).key

\* C24: for the one participant of a group, declared override_skip(Ty),
\* the visitor trait has a visit_<ty> whose default body does nothing but
\* return, and no enter_<ty> or exit_<ty>: besides visit_by_val and
\* visit_by_val_infallible, visit_<ty> is its only method.
C24_OverrideSkipMethods ==
    (Expanded /\ visitor.macro = "group" /\ result.status = "ok"
        /\ Len(visitor.targets) = 1 /\ visitor.targets[1].kind = "override_skip") =>
        LET methods == result.gen.traits[1].methods IN
        /\ \E i \in 1..Len(methods) :
              /\ methods[i].name \in TargetMethods(1)
              /\ methods[i].body = << Success(visitor.input.visitors[1].faillible) >>
        /\ \A i \in 1..Len(methods) :
              methods[i].name \in TargetMethods(1) \cup {"visit_by_val", "visit_by_val_infallible"}

(* ---------------------------------------------------------------------- *)
(* Properties of the expansion of derive(Drive/DriveMut) (SpecDeriveDrive) *)
(* ---------------------------------------------------------------------- *)

\* The derives of the declaration that have been expanded.
ExpandedDerives == 1..Len(log)

\* The fields the derive keeps: those without #[drive(skip)], of the struct
\* or of the variants without #[drive(skip)], unless the type has it.
RetainedFields(input) ==
    IF input.skip THEN {}
    ELSE IF input.data = "enum"
    THEN UNION {{v.fields[i] : i \in {i \in 1..Len(v.fields) : ~v.fields[i].skip}}
                   : v \in {w \in Range(input.variants) : ~w.skip}}
    ELSE {input.fields[i] : i \in {i \in 1..Len(input.fields) : ~input.fields[i].skip}}

\* The number of retained fields, over all variants.
RetainedCount(input) ==
    IF input.skip THEN 0
    ELSE IF input.data = "enum"
    THEN Sum([j \in 1..Len(input.variants) |->
                IF input.variants[j].skip THEN 0
                ELSE Cardinality({i \in 1..Len(input.variants[j].fields) :
                                     ~input.variants[j].fields[i].skip})])
    ELSE Cardinality({i \in 1..Len(input.fields) : ~input.fields[i].skip})

\* C21: the impl generated by derive(Drive) / derive(DriveMut) is bounded
\* by exactly `V: Visitor` and, for each field that is not #[drive(skip)] of
\* each variant that is not #[drive(skip)] (none if the type is), one
\* `V: Visit<'s, FieldTy>` (for Drive) or `V: VisitMut<'s, FieldTy>` (for
\* DriveMut) with the field's declared type; skipped fields, variants and
\* types add no bound.
C21_Requirements ==
    (visitor.k = "macro" /\ visitor.macro = "drive") =>
        \A d \in ExpandedDerives : \A i \in 1..Len(log[d].impls) :
            LET wc == log[d].impls[i].where_clause
                visit_trait == IF visitor.derives[d] = "DriveMut" THEN "VisitMut" ELSE "Visit"
            IN /\ Range(wc) = {[trait |-> "Visitor", ty |-> "none"]}
                                \cup {[trait |-> visit_trait, ty |-> f.ty] :
                                         f \in RetainedFields(visitor.input)}
               /\ Len(wc) = 1 + RetainedCount(visitor.input)

\* An enum whose variants both keep a field and skip a field, expanded for
\* both modes: the skipped fields' type B is in no bound.
C21_Witness ==
    /\ visitor.k = "macro" /\ visitor.macro = "drive"
    /\ Len(log) = 2
    /\ visitor.input.data = "enum" /\ ~visitor.input.skip
    /\ \E f \in Range(visitor.input.variants[1].fields) : f.skip /\ f.ty = "B"
    /\ \E f \in Range(visitor.input.variants[1].fields) : ~f.skip /\ f.ty = "A"
    /\ ~visitor.input.variants[1].skip
    /\ \A d \in 1..2 : \A p \in Range(log[d].impls[1].where_clause) : p.ty # "B"
    /\ \E p \in Range(log[2].impls[1].where_clause) : p.ty = "A"

(* ---------------------------------------------------------------------- *)
(* Properties of the impls of derive(Visit/VisitMut) (SpecPlan)            *)
(* ---------------------------------------------------------------------- *)

\* The targets written in the #[visit(..)] attributes, each with the kind
\* token of its option: attribute by attribute, option by option.
Occurrences ==
    LET attrs == SelectSeq(visitor.input.attrs, LAMBDA a : a.path = "visit") IN
    Flatten([a \in 1..Len(attrs) |->
        Flatten([o \in 1..Len(attrs[a].options) |->
            [t \in 1..Len(attrs[a].options[o].tys) |->
                [kind_token |-> attrs[a].options[o].kind_token,
                 named_ty   |-> attrs[a].options[o].tys[t]]]])])

DynEvents == SelectSeq(log, LAMBDA e : e.ev = "hook" /\ e.fn \in {"Enter", "Exit"})

\* The values entered and not yet exited (the last entered last) once
\* notification e has come; << 0 >> if it is an Exit for another value than
\* the last of them.
Notified(open, e) ==
    IF open = << 0 >> THEN open
    ELSE IF e.fn = "Enter" THEN Append(open, e.x)
    ELSE IF open # <<>> /\ open[Len(open)] = e.x
    THEN SubSeq(open, 1, Len(open) - 1)
    ELSE << 0 >>

\* The values entered and not yet exited after the notifications es.
RECURSIVE OpenEnters(_)
OpenEnters(es) ==
    IF es = <<>> THEN <<>>
    ELSE Notified(OpenEnters(SubSeq(es, 1, Len(es) - 1)), es[Len(es)])

\* The positions in the log of the events of kind ev, method fns, value x.
LogAt(ev, fns, x) == {i \in 1..Len(log) : log[i].ev = ev /\ log[i].fn \in fns /\ log[i].x = x}

DynDrives == {"dyn_drive", "dyn_drive_mut"}

\* The values dyn_visitor::drive[_mut] has been called on and has returned for.
DynDriven == {x \in 1..Len(heap) : LogAt("ret", DynDrives, x) # {}}

\* Every Exit is for the value entered last and not yet exited; and a call
\* of dyn_visitor::drive[_mut] on x that has returned has notified Enter(x)
\* once, then called and returned from x.drive_inner[_mut] with the adapter,
\* then notified Exit(x) once.
DynOrder ==
    /\ OpenEnters(DynEvents) # << 0 >>
    /\ \A x \in DynDriven :
          /\ Once(LogAt("call", DynDrives, x))
          /\ Once(LogAt("hook", {"Enter"}, x))
          /\ Once(LogAt("hook", {"Exit"}, x))
          /\ Once(LogAt("call", DriveMethods, x))
          /\ \A i \in LogAt("call", DriveMethods, x) : log[i].v = DynAdapterV
          /\ Before(LogAt("call", DynDrives, x), LogAt("hook", {"Enter"}, x))
          /\ Before(LogAt("hook", {"Enter"}, x), LogAt("call", DriveMethods, x))
          /\ Before(LogAt("ret", DriveMethods, x), LogAt("hook", {"Exit"}, x))
          /\ Before(LogAt("hook", {"Exit"}, x), LogAt("ret", DynDrives, x))
          /\ LogAt("ret", DriveMethods, x) # {}

\* The run is not stuck: the statement the innermost call is at can be run
\* (a call into another crate returns ()), or the call it waited for has
\* returned without a Break to pass on.
DynCanGoOn ==
    \/ Top.st = "returned" /\ ~(Stmt.q /\ IsBreak(ret))
    \/ Top.st = "run" /\ Stmt.op \in {"hook", "ret"}
    \/ /\ Top.st = "run" /\ Stmt.op \in {"call", "user"}
       /\ IsUserCode(Stmt, Recv(Top.v, Stmt.on), Stmt.arg)
             => Unit \in Results(Recv(Top.v, Stmt.on))

\* C23: dyn_visitor::drive / drive_mut on x notifies Enter(x), then calls
\* x.drive_inner[_mut] with the adapter, then notifies Exit(x); over the
\* nested values every Exit matches the last unmatched Enter; the run can
\* always go on until the first call has returned, and then every Enter is
\* matched by its Exit.
C23_EnterExit ==
    /\ visitor.k = "dyn" => DynOrder
    /\ (visitor.k = "dyn" /\ stack # <<>>) => DynCanGoOn
    /\ (visitor.k = "dyn" /\ stack = <<>>) =>
          (OpenEnters(DynEvents) = <<>> /\ 1 \in DynDriven)

\* A finished run over a root with two fields that are driven: six
\* notifications, the root's first and last.
C23_Witness ==
    /\ visitor.k = "dyn"
    /\ stack = <<>>
    /\ Len(DynEvents) = 6
    /\ DynEvents[1].fn = "Enter" /\ DynEvents[1].x = 1
    /\ DynEvents[2].fn = "Enter" /\ DynEvents[2].x = 2
    /\ DynEvents[3].fn = "Exit" /\ DynEvents[3].x = 2
    /\ DynEvents[6].fn = "Exit" /\ DynEvents[6].x = 1

(* ---------------------------------------------------------------------- *)
(* Properties of the visitor(..) arguments (SpecVisitorArgs)               *)
(* ---------------------------------------------------------------------- *)

\* The methods of a generated trait return (): visit_inner ends with the
\* unit value and visit_by_val with the visitor itself.
ReturnsUnit(trait) ==
    /\ trait.visit_inner[Len(trait.visit_inner)].val = "Unit"
    /\ TraitMethod(trait, "visit_by_val")[2].val = "Self"
    /\ \A i \in 1..Len(trait.methods) :
          trait.methods[i].body[Len(trait.methods[i].body)].val \notin {"Continue", "map_continue"}

\* The methods of a generated trait return ControlFlow.
ReturnsControlFlow(trait) ==
    /\ trait.visit_inner[Len(trait.visit_inner)].val = "last"
    /\ TraitMethod(trait, "visit_by_val")[2].val = "map_continue"

\* C25: a group whose visitor(..) arguments are written without a flag or
\* with `, infallible` is accepted; it gets one visitor trait per argument,
\* in order, whose methods return () where the flag is written and
\* ControlFlow where it is not.
C25_InfallibleFlag ==
    (visitor.k = "macro" /\ visitor.macro = "group_args" /\ result # Pending
        /\ \A i \in 1..Len(visitor.input.visitor_args) :
              visitor.input.visitor_args[i].flag \in {"none", "infallible"}) =>
        /\ result.status = "ok"
        /\ Len(result.gen.traits) = Len(visitor.input.visitor_args)
        /\ \A i \in 1..Len(result.gen.traits) :
              /\ result.gen.traits[i].vis_trait_name = visitor.input.visitor_args[i].trait_name
              /\ IF visitor.input.visitor_args[i].flag = "infallible"
                 THEN ReturnsUnit(result.gen.traits[i])
                 ELSE ReturnsControlFlow(result.gen.traits[i])

(* ---------------------------------------------------------------------- *)
(* Properties of the drivers of tuples and collections (SpecBuiltin)       *)
(* ---------------------------------------------------------------------- *)

\* The returns of the log from visitor.visit, in order.
VisitRets == SelectSeq(log, LAMBDA e : e.ev = "ret" /\ e.fn = "visit")

\* C26: the drivers of (A, B), (A, B, C), Vec<T>, Option<T>, [T; N] and
\* drive_iter / drive_iter_mut visit the elements one at a time in the order
\* of their positions; the first visit that returns Break is the last visit
\* and the driver returns that Break; when no visit breaks every element
\* is visited and the driver returns Continue (at once, without a visit,
\* for an empty collection and for None).
C26_InOrderUntilBreak ==
    /\ IsPrefix(Visited, Iter(1))
    /\ Len(Visited) - Len(VisitRets) \in {0, 1}
    /\ \A i \in 1..Len(VisitRets) :
          IsBreak(VisitRets[i].res) => i = Len(VisitRets) /\ i = Len(Visited)
    /\ Done =>
          IF VisitRets # <<>> /\ IsBreak(VisitRets[Len(VisitRets)].res)
          THEN result = VisitRets[Len(VisitRets)].res
          ELSE Visited = Iter(1) /\ result = Continue

\* A finished drive of a Vec of three elements where the visit of the
\* second returned Break(b2): the third was not visited and the drive
\* returned Break(b2).
C26_Witness ==
    /\ Done /\ heap[1].ty = "Vec<F>" /\ Len(Iter(1)) = 3
    /\ Len(Visited) = 2 /\ Len(VisitRets) = 2
    /\ VisitRets[1].res = Continue
    /\ result = Break("b2")

(* ---------------------------------------------------------------------- *)
(* Properties of the generated wrapper (SpecGroup)                         *)
(* ---------------------------------------------------------------------- *)

\* The Break type of the wrapper that implements Visit[Mut] for the j-th
\* visitor trait.
WrapperBreak(j) ==
    LET ws == visitor.gen.visitor_wrappers
        i  == CHOOSE i \in 1..Len(ws) : ws[i].wrapper = visitor.gen.wrapper_impls[j].wrapper
    IN ws[i].break

\* The calls (the returns) of the log of the wrapper's visit.
WrapperVisits(ev) ==
    {i \in 1..Len(log) : log[i].ev = ev /\ log[i].fn = "visit" /\ log[i].v.k = "adapter"}

\* C27: for each visitor trait of a group the wrapper has one Visitor
\* impl, with Break = V::Break for a faillible trait and Break = Infallible
\* for an infaillible one; the wrapper's visit(x) calls the visit(x) of the
\* visitor it wraps, once and as the first thing it does, and returns right
\* after that call has returned: what it returned for a faillible trait,
\* Continue for an infaillible one.
C27_WrapperVisit ==
    visitor.k = "group" =>
        /\ \A j \in 1..Len(visitor.gen.wrapper_impls) :
              /\ Once({i \in 1..Len(visitor.gen.visitor_wrappers) :
                         visitor.gen.visitor_wrappers[i].wrapper
                            = visitor.gen.wrapper_impls[j].wrapper})
              /\ WrapperBreak(j) = IF visitor.options.visitors[j].faillible
                                   THEN "V::Break" ELSE "Infallible"
        /\ \A i \in WrapperVisits("call") :
              /\ i < Len(log) => Is(log[i + 1], "call", "visit", log[i].x, GroupV(log[i].v.lay))
              /\ Cardinality({j \in At("call", "visit", log[i].x, GroupV(log[i].v.lay)) : j > i})
                    <= 1
        /\ \A i \in WrapperVisits("ret") :
              /\ i > 1
              /\ Is(log[i - 1], "ret", "visit", log[i].x, GroupV(log[i].v.lay))
              /\ log[i].res = IF VisDef.faillible THEN log[i - 1].res ELSE Continue

\* A run with an infaillible trait where the wrapped visitor's visit
\* returned () and the wrapper's visit has returned Continue(()).
C27_Witness ==
    /\ visitor.k = "group" /\ ~VisDef.faillible
    /\ WrapperBreak(visitor.vis) = "Infallible"
    /\ \E i \in WrapperVisits("ret") : log[i - 1].res = Unit /\ log[i].res = Continue

(* ---------------------------------------------------------------------- *)
(* Drive and DriveMut compared (SpecDeriveDrive)                           *)
(* ---------------------------------------------------------------------- *)

\* A bound of the Drive impl, as the DriveMut impl has it.
PredicateMut(p) == IF p.trait = "Visit" THEN [p EXCEPT !.trait = "VisitMut"] ELSE p

\* An impl of Drive with Drive, drive_inner and Visit replaced by DriveMut,
\* drive_inner_mut and VisitMut: the patterns, the variables they bind,
\* the visit statements with their order and their `?`, and the tail
\* expression are left as they are.
ImplMut(impl) ==
    [impl EXCEPT
        !.drive_trait  = "DriveMut",
        !.method       = "drive_inner_mut",
        !.where_clause = [i \in 1..Len(@) |-> PredicateMut(@[i])],
        !.arms         = [a \in 1..Len(@) |->
                            [@[a] EXCEPT !.predicates =
                                [i \in 1..Len(@) |-> PredicateMut(@[i])]]]]

\* C28: on the same type, derive(Drive) and derive(DriveMut) succeed or
\* fail alike, and the impl of DriveMut is the impl of Drive with Drive,
\* drive_inner and Visit renamed to DriveMut, drive_inner_mut and VisitMut:
\* the same arms, retained fields, order, skips and propagation of Break.
C28_SameTraversal ==
    (visitor.k = "macro" /\ visitor.macro = "drive") =>
        \A d \in ExpandedDerives : \A e \in ExpandedDerives :
            (visitor.derives[d] = "Drive" /\ visitor.derives[e] = "DriveMut") =>
                /\ log[e].compile_error = log[d].compile_error
                /\ Len(log[e].impls) = Len(log[d].impls)
                /\ \A i \in 1..Len(log[d].impls) :
                      /\ log[d].impls[i].drive_trait = "Drive"
                      /\ log[d].impls[i].method = "drive_inner"
                      /\ log[e].impls[i] = ImplMut(log[d].impls[i])

\* Both derives expanded on an enum of two variants, the second with three
\* fields of which the middle one is skipped: both impls visit its first
\* and its last field, in that order.
C28_Witness ==
    /\ visitor.k = "macro" /\ visitor.macro = "drive"
    /\ visitor.derives = << "Drive", "DriveMut" >> /\ Len(log) = 2
    /\ visitor.input.data = "enum" /\ ~visitor.input.skip
    /\ Len(log[1].impls) = 1 /\ Len(log[2].impls) = 1
    /\ \E a \in 1..Len(log[2].impls[1].arms) :
          /\ Len(log[2].impls[1].arms[a].destructuring) = 3
          /\ Len(log[2].impls[1].arms[a].visit_fields) = 2
          /\ log[1].impls[1].arms[a].visit_fields = log[2].impls[1].arms[a].visit_fields
          /\ log[2].impls[1].arms[a].predicates[1].trait = "VisitMut"
          /\ log[1].impls[1].arms[a].predicates[1].trait = "Visit"

(* ---------------------------------------------------------------------- *)
(* Unions (SpecDeriveDrive)                                                *)
(* ---------------------------------------------------------------------- *)

\* The derive was given a union.
OnUnion == visitor.k = "macro" /\ visitor.macro = "drive" /\ visitor.input.data = "union"

\* The expansion is the error `unions are not supported` and no impl.
Rejected(expansion) ==
    expansion.compile_error = "unions are not supported" /\ expansion.impls = <<>>

\* C29 (as stated): derive(Drive) and derive(DriveMut) on a union are the
\* error `unions are not supported` and generate no impl, whatever
\* attributes the union and its fields have.
C29_UnionRejected ==
    OnUnion => \A d \in ExpandedDerives : Rejected(log[d])

\* C29 (amended): derive(Drive) and derive(DriveMut) on a union without
\* #[drive(skip)] on the type are the error `unions are not supported` and
\* generate no impl, whatever #[drive(skip)] its fields have; on a union
\* with #[drive(skip)] on the type they succeed with the impl of an opaque
\* type: no arm, no bound but `V: Visitor`, Continue.
C29_UnionRejectedUnlessSkipped ==
    OnUnion =>
        \A d \in ExpandedDerives :
            IF visitor.input.skip
            THEN /\ log[d].compile_error = ""
                 /\ Len(log[d].impls) = 1
                 /\ log[d].impls[1].arms = <<>>
                 /\ log[d].impls[1].where_clause = << [trait |-> "Visitor", ty |-> "none"] >>
                 /\ log[d].impls[1].tail = Ret("Continue")
            ELSE Rejected(log[d])

\* Drive and DriveMut both derived on a union of two fields, one of them
\* #[drive(skip)], the union itself not: both are rejected.
C29_Witness ==
    /\ OnUnion /\ ~visitor.input.skip
    /\ Len(visitor.input.fields) = 2
    /\ visitor.input.fields[1].skip /\ ~visitor.input.fields[2].skip
    /\ Len(log) = 2 /\ visitor.derives = << "Drive", "DriveMut" >>
    /\ Rejected(log[1]) /\ Rejected(log[2])

(* ---------------------------------------------------------------------- *)
(* Properties of a whole traversal (SpecTraverse)                          *)
(* ---------------------------------------------------------------------- *)

\* The nodes of the fields that the Drive impl of the value at node x
\* visits: the fields without #[drive(skip)], the contents of a Box.
FieldNodes(x) ==
    CASE types[heap[x].ty].impl = "derived" ->
            LET fields == FieldsOf(types[heap[x].ty].input, heap[x].variant)
            IN {heap[x].fields[MemberName(fields, i)] :
                    i \in {j \in 1..Len(fields) : ~fields[j].skip}}
      [] types[heap[x].ty].impl = "box" -> {heap[x].fields["0"]}
      [] OTHER -> {}

\* The value at node x is driven when it is visited: its type is listed as
\* drive or as override.
Driven(x) == GroupKind(x).tag # "Skip" /\ ~GroupKind(x).skip

\* The nodes a traversal from node x reaches: x, and what is reached from
\* the fields of x if x is driven.
RECURSIVE ReachFrom(_)
ReachFrom(x) ==
    {x} \cup (IF Driven(x) THEN UNION {ReachFrom(y) : y \in FieldNodes(x)} ELSE {})

\* The nodes that a drive_inner[_mut] has passed to visit.
PassedToVisit == {x \in DOMAIN heap : At("call", "visit", x, AdapterV(0)) # {}}

\* No node was passed to visit twice, nor driven twice.
NeverTwice ==
    \A x \in DOMAIN heap :
        /\ Cardinality(At("call", "visit", x, AdapterV(0))) <= 1
        /\ Cardinality({i \in 1..Len(log) : IsCall(log[i], DriveMethods, x)}) <= 1

\* The traversal is over: the fields of the reachable driven values, and
\* no other node, were passed to visit, and each driven value was driven
\* from the visit_inner that its visit led to.
Traversed(reach) ==
    /\ Done
    /\ PassedToVisit = reach \ {1}
    /\ \A x \in reach :
          /\ Once(At("call", "visit", x, GroupV(0)))
          /\ Driven(x) => DrivenOnce(x)

\* C30: a traversal of a finite acyclic value started with visit or
\* visit_by_val on a visitor that keeps the generated defaults terminates;
\* it passes each field of each reachable driven value to visit once, never
\* twice, and drives each such value once, inside its visit_inner.
C30_Terminates ==
    /\ [](PassedToVisit \subseteq ReachFrom(1) \ {1} /\ NeverTwice)
    /\ <>Traversed(ReachFrom(1))

\* A finished traversal of a Let expression: its Pat, both boxes and both
\* subexpressions with their literals were passed to visit.
C30_Witness ==
    /\ visitor.k = "group" /\ Done
    /\ heap[1].ty = "Expr" /\ heap[1].variant = "Let"
    /\ Entry = "call_visit_by_val"
    /\ Traversed(ReachFrom(1))
    /\ Cardinality(PassedToVisit) >= 7

====
